---------------------------- MODULE Spec2Model ----------------------------
(***************************************************************************)
(* Device-dispatch and concurrency core of the Kendryte FreeRTOS SDK:      *)
(* the handle table and the DMA channel pool of the I/O layer, and the     *)
(* spinlock, counting semaphore and hartlock of the atomic header, each    *)
(* run by the two cores of the SoC one shared-memory access at a time.     *)
(***************************************************************************)
EXTENDS Integers, Sequences, FiniteSets, TLC

\* ------------------------------------------------------------------------
\* Sizes.  MAX_HANDLES is the table size of the source scaled down; the
\* pool size and the heap size are the sizes of the configuration checked.
\* ------------------------------------------------------------------------
MAX_HANDLES == 2
HANDLE_OFFSET == 256
ALLOC_SWEEPS == 2
NumDmaDrivers == 1
MaxFaults == 1

Harts == {0, 1}
NULL == 0
NoReg == <<"none", 0>>

Min(a, b) == IF a < b THEN a ELSE b

Slots == 0 .. (MAX_HANDLES - 1)
HandleValues == {j + HANDLE_OFFSET : j \in Slots}
\* _file cells of the heap: a full table and one binding in flight.
HeapCells == MAX_HANDLES + 1
Files == 1 .. HeapCells

\* ------------------------------------------------------------------------
\* Driver registry: NULL-name terminated static tables of descriptors.
\* excl tells whether the driver's open check admits one opener at a time
\* (a DMA channel) or always succeeds (a shared device).
\* ------------------------------------------------------------------------
\* A device name is a pair (path stem, unit); NullName is the NULL name pointer.
NullName == << >>

Sentinel == [name |-> NullName, type |-> "NONE", excl |-> FALSE]

g_dma_drivers ==
    [k \in 1 .. (NumDmaDrivers + 1) |->
        IF k <= NumDmaDrivers
        THEN [name |-> <<"/dev/dma", k - 1>>, type |-> "DRIVER_DMA", excl |-> TRUE]
        ELSE Sentinel]

g_system_drivers ==
    << [name |-> <<"/dev/fft", 0>>, type |-> "DRIVER_FFT", excl |-> FALSE],
       Sentinel >>

g_hal_drivers ==
    << [name |-> <<"/dev/uart", 1>>, type |-> "DRIVER_UART", excl |-> FALSE],
       Sentinel >>

OpenNames == {<<"/dev/uart", 1>>}

\* ------------------------------------------------------------------------
\* State of the I/O layer.
\* ------------------------------------------------------------------------
VARIABLES
    handles_,      \* slot -> _file pointer, NULL when empty
    heap,          \* _file cell -> descriptor it points to, NoReg when free
    used,          \* descriptor -> the driver is opened (exclusive drivers)
    dma_free_,     \* the pool semaphore [count, max]
    pc,            \* core -> position in the call it runs
    loc,           \* core -> locals of the call
    liveCount,     \* slot -> allocations returned for it since its last clear
    faults,        \* how many stale io_close calls and failed mallocs the run had
    rt             \* bookkeeping of a dma_open_free / dma_close pair run alone

ioVars == << handles_, heap, used, dma_free_, pc, loc, liveCount, faults, rt >>

\* The spinlocks of the two-core locking runs: the lock words, each core's
\* position and the lock it is calling on, and how many times each core
\* acquired each lock without unlocking it since.
VARIABLES sl, spc, sloc, held

spinVars == << sl, spc, sloc, held >>

\* The counting semaphore of the semaphore runs: the semaphore_t, each core's
\* position and locals (amount i and the loaded count), and the initial
\* count plus the amounts of returned signals minus those of returned waits.
VARIABLES sem, mpc, mloc, net

semVars == << sem, mpc, mloc, net >>

\* The hartlock of the hartlock runs: the hartlock_t, each core's position
\* and locals (loaded count, result of hartlock_trylock, its caller), and
\* each core's returned acquisitions minus the releases it has called.
VARIABLES hl, hpc, hloc, holds

hartVars == << hl, hpc, hloc, holds >>

lockVars == << spinVars, semVars, hartVars >>

\* The interrupt controller's dispatch table of the PIC runs: the handler and
\* context columns of pic_context_, each core's position and locals, the
\* registration each line settled on (Unsettled while a registration of the
\* line is in progress or after two of them overlapped), and the
\* (handler, context) pairs ever passed to pic_set_irq_handler for the line,
\* and the number of registrations the run has made.
VARIABLES pic_callbacks, callback_userdata, ppc, ploc, settled, regd, nset

picVars == << pic_callbacks, callback_userdata, ppc, ploc, settled, regd, nset >>

\* The static driver tables g_dma_drivers, g_system_drivers and g_hal_drivers,
\* each a sequence of descriptors closed by the entry with the NULL name.
\* They are filled at link time and no call writes them.
VARIABLES drivers

\* The handle table of the runs that watch the values io_alloc_handle and
\* io_close return: the table, each core's position and locals, the last
\* returned call with its value (for io_close the handle it was given), and
\* the files that io_free has not released.
VARIABLES htbl, tpc, tloc, tret, topen

tblVars == << htbl, tpc, tloc, tret, topen >>

\* The last dispatching call (io_read, io_write, io_control or a typed
\* entry point): the handle it was given, whether the handle was live, the
\* descriptor it resolved, the driver functions it called, the driver's
\* result, and what it returned or how it stopped.
VARIABLES disp

\* The dynamic driver table: g_custom_drivers, each core's position and
\* locals in install_custom_driver_core, the registrations that returned, in
\* the order of their return, each with the slot it returned and the
\* descriptor it was given, and the number of registrations called.
VARIABLES g_custom_drivers, cpc, cloc, installed, ninst

dynVars == << g_custom_drivers, cpc, cloc, installed, ninst >>

\* The bring-up of os_entry on core 0 and os_entry_core1 on core 1: the
\* position of core 0 in os_entry, the steps it has completed, the names it
\* has passed to io_open, the handle table and the drivers' open state as the
\* opens of the bring-up leave them, the file handles and the pool semaphore
\* it has stored, the main task and its result, each core's scheduler, the
\* position of core 1, and the value os_entry returned.
VARIABLES boot

\* The sub-device calls i2c_get_device, spi_get_device and sccb_get_device:
\* for each core the call it runs with the driver functions it has invoked,
\* the handle table as these calls fill it (slot -> entry of
\* g_custom_drivers, 0 when empty), and the last call that returned, with
\* the entry it registered, its handle and whether no live handle had that
\* value.
VARIABLES sub

\* The DMA transfers: the completion events (binary semaphores, NoSem when
\* not created), the events of the single transfers the driver has still to
\* signal, the dma_transmit call with what happened to its event, the looped
\* transfer with its stages, handler invocations and completion signals,
\* the caller's stop flag, and the number of stages begun when it was set.
VARIABLES xfer

\* The opens and closes of the drivers over calls that run one at a time:
\* for every descriptor the open checks that succeeded and the close calls,
\* the exclusive drivers' open state, the handle table (slot -> descriptor
\* its file is bound to), the DMA pool, the entries of g_custom_drivers in
\* use, the calls made, and whether an assertion stopped the run.
VARIABLES bal

\* What the I/O calls and the locking calls modelled above leave alone.
layerVars == << picVars, drivers, tblVars, disp, dynVars, boot, sub, xfer, bal >>

\* What the calls on the PIC table leave alone.
outsidePic == << ioVars, lockVars, drivers, tblVars, disp, dynVars, boot, sub, xfer, bal >>

\* What the calls of the handle-table runs leave alone.
outsideTbl == << ioVars, lockVars, drivers, picVars, disp, dynVars, boot, sub, xfer, bal >>

\* What the dispatching calls leave alone, the handle table aside.
outsideDisp == << lockVars, drivers, picVars, tblVars, dynVars, boot, sub, xfer, bal >>

\* What the registrations in the dynamic driver table leave alone.
outsideDyn == << ioVars, lockVars, drivers, picVars, tblVars, disp, boot, sub, xfer, bal >>

\* What the bring-up leaves alone.
outsideBoot == << ioVars, lockVars, drivers, picVars, tblVars, disp, dynVars, sub, xfer, bal >>

\* What the sub-device calls leave alone, the dynamic table aside.
outsideSub == << ioVars, lockVars, drivers, picVars, tblVars, disp, boot, xfer, bal >>

\* What the DMA transfers leave alone.
outsideXfer == << ioVars, lockVars, picVars, drivers, tblVars, disp, dynVars, boot, sub, bal >>

\* What the counted calls leave alone.
outsideBal == << ioVars, lockVars, picVars, drivers, tblVars, disp, dynVars, boot, sub, xfer >>

Table(t) == drivers[t]

TableRefs(t) == {<<t, k>> : k \in {i \in DOMAIN Table(t) : Table(t)[i].name # NullName}}
AllRegs == TableRefs("dma") \cup TableRefs("system") \cup TableRefs("hal")
RegAt(ref) == Table(ref[1])[ref[2]]

\* ------------------------------------------------------------------------
\* Atomic helpers (the handle table is an array of pointers).
\* ------------------------------------------------------------------------
atomic_cas_store(mem, j, cmp, swp) ==
    [old |-> cmp, mem |-> [mem EXCEPT ![j] = swp]]

atomic_cas(mem, j, cmp, swp) ==
    [old |-> mem[j],
     mem |-> IF mem[j] = cmp THEN [mem EXCEPT ![j] = swp] ELSE mem]

atomic_set_keep(mem, j, val) == mem

atomic_set(mem, j, val) == [mem EXCEPT ![j] = val]

\* ------------------------------------------------------------------------
\* FreeRTOS counting semaphore, as the pool uses it.
\* ------------------------------------------------------------------------
xSemaphoreCreateCounting(max, init) == [count |-> init, max |-> max]

xSemaphoreGive(s) ==
    IF s.count < s.max THEN [s EXCEPT !.count = @ + 1] ELSE s

xSemaphoreTakeReady(s) == s.count > 0

xSemaphoreTake(s) == [s EXCEPT !.count = @ - 1]

\* ------------------------------------------------------------------------
\* Driver open check and close.
\* ------------------------------------------------------------------------
driver_open(u, ref) ==
    IF RegAt(ref).excl
    THEN IF u[ref] THEN [ok |-> FALSE, used |-> u]
                   ELSE [ok |-> TRUE, used |-> [u EXCEPT ![ref] = TRUE]]
    ELSE [ok |-> TRUE, used |-> u]

driver_close(u, ref) == [u EXCEPT ![ref] = FALSE]

\* ------------------------------------------------------------------------
\* Pure parts of the I/O layer.
\* ------------------------------------------------------------------------
RECURSIVE CountEntries(_, _)
CountEntries(tbl, k) ==
    IF tbl[k].name = NullName THEN 0 ELSE 1 + CountEntries(tbl, k + 1)

init_dma_system_over ==
    LET count == CountEntries(g_dma_drivers, 1) + 1
    IN xSemaphoreCreateCounting(count, count)

init_dma_system ==
    LET count == CountEntries(g_dma_drivers, 1)
    IN xSemaphoreCreateCounting(count, count)

RECURSIVE FirstNamed(_, _, _)
FirstNamed(tbl, name, k) ==
    IF tbl[k].name = NullName THEN 0
    ELSE IF tbl[k].name = name THEN k
    ELSE FirstNamed(tbl, name, k + 1)

find_free_driver_unchecked(t, name, u) ==
    LET k == FirstNamed(Table(t), name, 1)
    IN [reg |-> IF k = 0 THEN NoReg ELSE <<t, k>>, used |-> u, checks |-> << >>]

\* The result carries the open checks the scan invoked, each with its outcome.
find_free_driver(t, name, u) ==
    LET k == FirstNamed(Table(t), name, 1)
    IN IF k = 0 THEN [reg |-> NoReg, used |-> u, checks |-> << >>]
       ELSE LET o == driver_open(u, <<t, k>>)
            IN [reg |-> IF o.ok THEN <<t, k>> ELSE NoReg, used |-> o.used,
                checks |-> << << <<t, k>>, o.ok >> >>]

FreeCells(hp) == {f \in Files : hp[f] = NoReg}

\* malloc hands out the lowest free cell, or NULL when it fails.
malloc(hp, fail) ==
    IF fail \/ FreeCells(hp) = {} THEN NULL
    ELSE CHOOSE f \in FreeCells(hp) : \A g \in FreeCells(hp) : f <= g

free_leak(hp, file) == hp

free(hp, file) == [hp EXCEPT ![file] = NoReg]

io_alloc_file_any(hp, reg, fail) ==
    LET file == malloc(hp, fail)
    IN IF file = NULL THEN [file |-> NULL, heap |-> hp]
       ELSE [file |-> file, heap |-> [hp EXCEPT ![file] = reg]]

io_alloc_file(hp, reg, fail) ==
    IF reg # NoReg
    THEN LET file == malloc(hp, fail)
         IN IF file = NULL THEN [file |-> NULL, heap |-> hp]
            ELSE [file |-> file, heap |-> [hp EXCEPT ![file] = reg]]
    ELSE [file |-> NULL, heap |-> hp]

io_open_reg(t, name, u, hp, fail) ==
    LET d == find_free_driver(t, name, u)
        a == io_alloc_file(hp, d.reg, fail)
    IN [file |-> a.file, heap |-> a.heap, used |-> d.used, reg |-> d.reg,
        checks |-> d.checks]

\* file->driver_reg: the descriptor stored in the cell; a read of a cell that
\* was freed may yield any descriptor.
ReadReg(hp, file) == IF hp[file] # NoReg THEN {hp[file]} ELSE AllRegs

LocInit == [op |-> "none", file |-> NULL, i |-> 0, j |-> 0, head |-> 0,
            h |-> 0, reg |-> NoReg, name |-> NullName, gave |-> "none",
            checks |-> << >>]

RtOff == [st |-> "off", c |-> 0, h |-> 0, count |-> 0,
          used |-> [r \in AllRegs |-> FALSE], handles |-> [j \in Slots |-> NULL]]

Quiescent == \A c \in Harts : pc[c] = "idle"

\* A run has at most MaxFaults faults of its environment: mallocs that fail
\* with memory left, and io_close calls on a handle that is not open or that
\* the other core is closing.
FaultsLeft == faults.stale + faults.fail < MaxFaults

\* The outcomes of one malloc call the run may still take.
FailChoices == IF FaultsLeft THEN BOOLEAN ELSE {FALSE}

\* io_close(h) on a handle that is not open, or that the other core is closing.
StaleClose(c, h) ==
    /\ h # 0
    /\ \/ handles_[h - HANDLE_OFFSET] = NULL
       \/ \E d \in Harts \ {c} : loc[d].op = "io_close" /\ loc[d].h = h


\* ------------------------------------------------------------------------
\* Bookkeeping of a dma_open_free() / dma_close() pair that one core runs
\* from a quiescent state with the other core idle throughout.
\* ------------------------------------------------------------------------
RtCall(c, isDmaOpen, closeArg) ==
    IF isDmaOpen
    THEN IF Quiescent
         THEN [st |-> "open", c |-> c, h |-> 0, count |-> dma_free_.count,
               used |-> used, handles |-> handles_]
         ELSE RtOff
    ELSE IF rt.st = "opened" /\ rt.c = c /\ closeArg = rt.h
         THEN [rt EXCEPT !.st = IF closeArg = 0 THEN "done" ELSE "close"]
         ELSE RtOff

RtRet(c, op, h) ==
    IF rt.st = "open" /\ rt.c = c /\ op = "dma_open_free"
    THEN [rt EXCEPT !.st = "opened", !.h = h]
    ELSE IF rt.st = "close" /\ rt.c = c /\ op = "io_close"
    THEN [rt EXCEPT !.st = "done"]
    ELSE rt

RtHalt(c) == IF rt.c = c THEN RtOff ELSE rt

\* ------------------------------------------------------------------------
\* io_open(name): system table first, HAL table second.
\* ------------------------------------------------------------------------
\* io_open(name) for a name of the set names.
IoOpenOf(c, names) ==
    /\ pc[c] = "idle"
    /\ \E name \in names, fail \in FailChoices :
         LET r == io_open_reg("system", name, used, heap, fail)
         IN /\ used' = r.used
            /\ heap' = r.heap
            /\ faults' = IF r.reg # NoReg /\ r.file = NULL
                         THEN [faults EXCEPT !.fail = Min(@ + 1, MaxFaults)]
                         ELSE faults
            /\ loc' = [loc EXCEPT ![c] = [LocInit EXCEPT !.op = "io_open",
                                   !.file = r.file,
                                   !.name = IF r.file # NULL THEN NullName ELSE name,
                                   !.checks = r.checks]]
            /\ pc' = [pc EXCEPT ![c] = IF r.file # NULL THEN "alloc_cas"
                                       ELSE "open_hal"]
    /\ rt' = RtCall(c, FALSE, -1)
    /\ UNCHANGED << lockVars, layerVars, handles_, dma_free_, liveCount >>

IoOpenCall(c) == IoOpenOf(c, OpenNames)

IoOpenHal(c) ==
    /\ pc[c] = "open_hal"
    /\ \E fail \in FailChoices :
         LET r == io_open_reg("hal", loc[c].name, used, heap, fail)
         IN /\ used' = r.used
            /\ heap' = r.heap
            /\ faults' = IF r.reg # NoReg /\ r.file = NULL
                         THEN [faults EXCEPT !.fail = Min(@ + 1, MaxFaults)]
                         ELSE faults
            /\ loc' = [loc EXCEPT ![c] = IF r.file # NULL
                                          THEN [@ EXCEPT !.file = r.file,
                                                         !.name = NullName,
                                                         !.checks = @ \o r.checks]
                                          ELSE [LocInit EXCEPT
                                                    !.name = loc[c].name,
                                                    !.checks = loc[c].checks \o r.checks]]
            \* configASSERT(file) stops the core when no table gave a binding
            /\ pc' = [pc EXCEPT ![c] = IF r.file # NULL THEN "alloc_cas"
                                       ELSE "assert_open"]
            /\ rt' = IF r.file # NULL THEN rt ELSE RtHalt(c)
    /\ UNCHANGED << lockVars, layerVars, handles_, dma_free_, liveCount >>

\* ------------------------------------------------------------------------
\* io_alloc_handle(file), file # NULL: one compare-and-swap per step.
\* ------------------------------------------------------------------------
AllocCas(c) ==
    /\ pc[c] = "alloc_cas"
    /\ LET j == loc[c].j
           r == atomic_cas(handles_, j, NULL, loc[c].file)
       IN /\ handles_' = r.mem
          /\ IF r.old = NULL
             THEN /\ pc' = [pc EXCEPT ![c] = "idle"]
                  /\ loc' = [loc EXCEPT ![c] = LocInit]
                  /\ liveCount' = [liveCount EXCEPT ![j] = @ + 1]
                  /\ rt' = RtRet(c, loc[c].op, j + HANDLE_OFFSET)
             ELSE /\ IF j + 1 < MAX_HANDLES
                     THEN /\ loc' = [loc EXCEPT ![c].j = j + 1]
                          /\ pc' = pc
                     ELSE IF loc[c].i + 1 < ALLOC_SWEEPS
                     THEN /\ loc' = [loc EXCEPT ![c].j = 0, ![c].i = @ + 1]
                          /\ pc' = pc
                     ELSE /\ loc' = [loc EXCEPT ![c].j = 0, ![c].i = 0]
                          /\ pc' = [pc EXCEPT ![c] = "free_type"]
                  /\ UNCHANGED << liveCount, rt >>
    /\ UNCHANGED << lockVars, layerVars, heap, used, dma_free_, faults >>

\* ------------------------------------------------------------------------
\* io_free(file), file # NULL.
\* ------------------------------------------------------------------------
FreeType(c) ==
    /\ pc[c] = "free_type"
    /\ \E reg \in ReadReg(heap, loc[c].file) :
         IF RegAt(reg).type = "DRIVER_DMA"
         THEN /\ dma_free_' = xSemaphoreGive(dma_free_)
              /\ loc' = [loc EXCEPT ![c].gave =
                             IF dma_free_.count < dma_free_.max THEN "pass" ELSE "full"]
         ELSE UNCHANGED << dma_free_, loc >>
    /\ pc' = [pc EXCEPT ![c] = "free_close"]
    /\ UNCHANGED << lockVars, layerVars, handles_, heap, used, liveCount, faults, rt >>

FreeCloseSkip(c) ==
    /\ pc[c] = "free_close"
    /\ pc' = [pc EXCEPT ![c] = "free_mem"]
    /\ UNCHANGED << lockVars, layerVars, handles_, heap, used, dma_free_, loc, liveCount, faults, rt >>

FreeClose(c) ==
    /\ pc[c] = "free_close"
    /\ \E reg \in ReadReg(heap, loc[c].file) :
         used' = driver_close(used, reg)
    /\ pc' = [pc EXCEPT ![c] = "free_mem"]
    /\ UNCHANGED << lockVars, layerVars, handles_, heap, dma_free_, loc, liveCount, faults, rt >>

FreeMem(c) ==
    /\ pc[c] = "free_mem"
    /\ heap' = free(heap, loc[c].file)
    /\ IF loc[c].op = "io_close"
       THEN /\ pc' = [pc EXCEPT ![c] = "close_set"]
            /\ loc' = [loc EXCEPT ![c].file = NULL, ![c].gave = "none"]
            /\ rt' = rt
       ELSE \* io_alloc_handle returns 0
            /\ pc' = [pc EXCEPT ![c] = "idle"]
            /\ loc' = [loc EXCEPT ![c] = LocInit]
            /\ rt' = RtRet(c, loc[c].op, 0)
    /\ UNCHANGED << lockVars, layerVars, handles_, used, dma_free_, liveCount, faults >>

\* io_free on a cell that is already free (a read of file->driver_reg, or a
\* second free): the core may also stop on a fault.
FreeFault(c) ==
    /\ pc[c] \in {"free_type", "free_close", "free_mem"}
    /\ heap[loc[c].file] = NoReg
    /\ pc' = [pc EXCEPT ![c] = "fault"]
    /\ loc' = [loc EXCEPT ![c] = LocInit]
    /\ rt' = RtHalt(c)
    /\ UNCHANGED << lockVars, layerVars, handles_, heap, used, dma_free_, liveCount, faults >>

\* ------------------------------------------------------------------------
\* io_close(file)
\* ------------------------------------------------------------------------
IoClose(c, h) ==
    /\ faults' = IF StaleClose(c, h) THEN [faults EXCEPT !.stale = @ + 1]
                  ELSE faults
    /\ rt' = RtCall(c, FALSE, h)
    /\ IF h = 0
       THEN UNCHANGED << pc, loc >>
       ELSE LET rfile == handles_[h - HANDLE_OFFSET]
            IN /\ loc' = [loc EXCEPT ![c] = [LocInit EXCEPT !.op = "io_close",
                                              !.h = h, !.file = rfile]]
               /\ pc' = [pc EXCEPT ![c] = IF rfile # NULL THEN "free_type"
                                          ELSE "close_set"]
    /\ UNCHANGED << lockVars, layerVars, handles_, heap, used, dma_free_, liveCount >>

\* io_close of 0 or of an open handle that nobody is closing.
IoCloseCall(c) ==
    /\ pc[c] = "idle"
    /\ \E h \in {0} \cup HandleValues : ~StaleClose(c, h) /\ IoClose(c, h)

\* io_close of a handle that is not open, or that the other core is closing.
IoCloseStale(c) ==
    /\ pc[c] = "idle"
    /\ FaultsLeft
    /\ \E h \in HandleValues : StaleClose(c, h) /\ IoClose(c, h)

CloseSet(c) ==
    /\ pc[c] = "close_set"
    /\ handles_' = atomic_set(handles_, loc[c].h - HANDLE_OFFSET, NULL)
    /\ liveCount' = [liveCount EXCEPT ![loc[c].h - HANDLE_OFFSET] = 0]
    /\ pc' = [pc EXCEPT ![c] = "idle"]
    /\ loc' = [loc EXCEPT ![c] = LocInit]
    /\ rt' = RtRet(c, "io_close", 0)
    /\ UNCHANGED << lockVars, layerVars, heap, used, dma_free_, faults >>

\* ------------------------------------------------------------------------
\* dma_open_free()
\* ------------------------------------------------------------------------
DmaOpenFreeCall(c) ==
    /\ pc[c] = "idle"
    /\ pc' = [pc EXCEPT ![c] = "dma_take"]
    /\ loc' = [loc EXCEPT ![c] = [LocInit EXCEPT !.op = "dma_open_free"]]
    /\ rt' = RtCall(c, TRUE, -1)
    /\ UNCHANGED << lockVars, layerVars, handles_, heap, used, dma_free_, liveCount, faults >>

DmaTake(c) ==
    /\ pc[c] = "dma_take"
    /\ xSemaphoreTakeReady(dma_free_)
    /\ dma_free_' = xSemaphoreTake(dma_free_)
    /\ pc' = [pc EXCEPT ![c] = "dma_scan"]
    /\ loc' = [loc EXCEPT ![c].head = 1]
    /\ UNCHANGED << lockVars, layerVars, handles_, heap, used, liveCount, faults, rt >>

DmaScan(c) ==
    /\ pc[c] = "dma_scan"
    /\ LET head == loc[c].head
       IN IF g_dma_drivers[head].name = NullName
          THEN \* configASSERT(driver_reg) with driver_reg = NULL
               /\ pc' = [pc EXCEPT ![c] = "assert_dma"]
               /\ loc' = [loc EXCEPT ![c] = LocInit]
               /\ rt' = RtHalt(c)
               /\ used' = used
          ELSE LET o == driver_open(used, <<"dma", head>>)
               IN /\ used' = o.used
                  /\ rt' = rt
                  /\ IF o.ok
                     THEN /\ loc' = [loc EXCEPT ![c].reg = <<"dma", head>>,
                                                 ![c].head = 0]
                          /\ pc' = [pc EXCEPT ![c] = "dma_file"]
                     ELSE /\ loc' = [loc EXCEPT ![c].head = head + 1]
                          /\ pc' = pc
    /\ UNCHANGED << lockVars, layerVars, handles_, heap, dma_free_, liveCount, faults >>

DmaFile(c) ==
    /\ pc[c] = "dma_file"
    /\ \E fail \in FailChoices :
         LET a == io_alloc_file(heap, loc[c].reg, fail)
         IN /\ heap' = a.heap
            /\ faults' = IF a.file = NULL
                         THEN [faults EXCEPT !.fail = Min(@ + 1, MaxFaults)]
                         ELSE faults
            /\ IF a.file # NULL
               THEN /\ loc' = [loc EXCEPT ![c].file = a.file, ![c].reg = NoReg]
                    /\ pc' = [pc EXCEPT ![c] = "alloc_cas"]
                    /\ rt' = rt
               ELSE \* io_alloc_handle(NULL) returns 0
                    /\ loc' = [loc EXCEPT ![c] = LocInit]
                    /\ pc' = [pc EXCEPT ![c] = "idle"]
                    /\ rt' = RtRet(c, "dma_open_free", 0)
    /\ UNCHANGED << lockVars, layerVars, handles_, used, dma_free_, liveCount >>


\* ------------------------------------------------------------------------
\* spinlock_t: two cores calling spinlock_lock, spinlock_trylock and
\* spinlock_unlock, each core unlocking only a lock it acquired.
\* ------------------------------------------------------------------------
NumLocks == 2

Locks == 1 .. NumLocks

SPINLOCK_INIT == 0

atomic_read(x) == x

\* __sync_lock_test_and_set: stores swp and returns the old value.
atomic_swap(x, swp) == [old |-> x, new |-> swp]

spinlock_trylock_blind(l) == [res |-> 0, lock |-> atomic_swap(l, -1).new]

spinlock_trylock(l) == [res |-> atomic_swap(l, -1).old, lock |-> atomic_swap(l, -1).new]

spinlock_unlock(l) == 0

InitSpin ==
    /\ sl = [l \in Locks |-> SPINLOCK_INIT]
    /\ spc = [c \in Harts |-> "idle"]
    /\ sloc = [c \in Harts |-> 0]
    /\ held = [c \in Harts |-> [l \in Locks |-> 0]]

\* spinlock_lock(l) is called, on any lock, held by the caller or not.
SpinLockCall(c) ==
    /\ spc[c] = "idle"
    /\ \E l \in Locks :
           /\ spc' = [spc EXCEPT ![c] = "sl_read"]
           /\ sloc' = [sloc EXCEPT ![c] = l]
    /\ UNCHANGED << ioVars, layerVars, hartVars, semVars, sl, held >>

\* while (atomic_read(&lock->lock)) ; leaves the loop on reading 0.
SpinRead(c) ==
    /\ spc[c] = "sl_read"
    /\ atomic_read(sl[sloc[c]]) = 0
    /\ spc' = [spc EXCEPT ![c] = "sl_swap"]
    /\ UNCHANGED << ioVars, layerVars, hartVars, semVars, sl, sloc, held >>

\* } while (spinlock_trylock(lock)); returns when the swap read 0.
SpinSwap(c) ==
    /\ spc[c] = "sl_swap"
    /\ LET l == sloc[c]
           r == spinlock_trylock(sl[l])
       IN  /\ sl' = [sl EXCEPT ![l] = r.lock]
           /\ IF r.res # 0
                 THEN /\ spc' = [spc EXCEPT ![c] = "sl_read"]
                      /\ UNCHANGED << sloc, held >>
                 ELSE /\ spc' = [spc EXCEPT ![c] = "idle"]
                      /\ sloc' = [sloc EXCEPT ![c] = 0]
                      /\ held' = [held EXCEPT ![c][l] = @ + 1]
    /\ UNCHANGED << ioVars, layerVars, hartVars, semVars >>

\* spinlock_trylock(l): one swap; the lock is acquired when it returns 0.
SpinTry(c) ==
    /\ spc[c] = "idle"
    /\ \E l \in Locks :
           LET r == spinlock_trylock(sl[l])
           IN  /\ sl' = [sl EXCEPT ![l] = r.lock]
               /\ held' = [held EXCEPT ![c][l] = IF r.res = 0 THEN @ + 1 ELSE @]
    /\ UNCHANGED << ioVars, layerVars, hartVars, semVars, spc, sloc >>

\* spinlock_unlock(l) by a core that acquired l.
SpinUnlock(c) ==
    /\ spc[c] = "idle"
    /\ \E l \in Locks :
           /\ held[c][l] > 0
           /\ sl' = [sl EXCEPT ![l] = spinlock_unlock(sl[l])]
           /\ held' = [held EXCEPT ![c][l] = @ - 1]
    /\ UNCHANGED << ioVars, layerVars, hartVars, semVars, spc, sloc >>

NextSpin ==
    \/ \E c \in Harts : SpinLockCall(c)
    \/ \E c \in Harts : SpinRead(c)
    \/ \E c \in Harts : SpinSwap(c)
    \/ \E c \in Harts : SpinTry(c)
    \/ \E c \in Harts : SpinUnlock(c)

\* ------------------------------------------------------------------------
\* semaphore_t: two cores calling semaphore_signal(i) and semaphore_wait(i).
\* ------------------------------------------------------------------------
MaxAmount == 2

MaxInitCount == 1

SemCap == 3

Amounts == 1 .. MaxAmount

MLocInit == [i |-> 0, tmp |-> 0]

atomic_add(x, inc) == x + inc

semaphore_wait_ready_any(count, i) == count >= 0

\* if (semaphore->count >= i)
semaphore_wait_ready(count, i) == count >= i

InitSemWith(n) ==
    /\ sem = [lock |-> SPINLOCK_INIT, count |-> n, waiting |-> 0]
    /\ mpc = [c \in Harts |-> "idle"]
    /\ mloc = [c \in Harts |-> MLocInit]
    /\ net = n

InitSem == InitSemWith(0)

\* semaphore_signal(i) is called.
SemSignalCall(c) ==
    /\ mpc[c] = "idle"
    /\ \E i \in Amounts :
           /\ sem.count + i <= SemCap
           /\ mloc' = [mloc EXCEPT ![c] = [i |-> i, tmp |-> 0]]
    /\ mpc' = [mpc EXCEPT ![c] = "sig_lock"]
    /\ UNCHANGED << ioVars, layerVars, hartVars, spinVars, sem, net >>

\* semaphore_wait(i) is called: atomic_add(&waiting, 1).
SemWaitCall(c) ==
    /\ mpc[c] = "idle"
    /\ \E i \in Amounts : mloc' = [mloc EXCEPT ![c] = [i |-> i, tmp |-> 0]]
    /\ sem' = [sem EXCEPT !.waiting = atomic_add(@, 1)]
    /\ mpc' = [mpc EXCEPT ![c] = "wait_lock"]
    /\ UNCHANGED << ioVars, layerVars, hartVars, spinVars, net >>

\* spinlock_lock(&semaphore->lock) returns: its swap read 0.
SemLock(c) ==
    /\ mpc[c] \in {"sig_lock", "wait_lock"}
    /\ LET r == spinlock_trylock(sem.lock)
       IN  /\ r.res = 0
           /\ sem' = [sem EXCEPT !.lock = r.lock]
    /\ mpc' = [mpc EXCEPT ![c] = IF mpc[c] = "sig_lock" THEN "sig_load" ELSE "wait_test"]
    /\ UNCHANGED << ioVars, layerVars, hartVars, spinVars, mloc, net >>

\* semaphore->count += i, the load.
SigLoad(c) ==
    /\ mpc[c] = "sig_load"
    /\ mloc' = [mloc EXCEPT ![c].tmp = sem.count]
    /\ mpc' = [mpc EXCEPT ![c] = "sig_store"]
    /\ UNCHANGED << ioVars, layerVars, hartVars, spinVars, sem, net >>

\* semaphore->count += i, the store.
SigStore(c) ==
    /\ mpc[c] = "sig_store"
    /\ sem' = [sem EXCEPT !.count = mloc[c].tmp + mloc[c].i]
    /\ mloc' = [mloc EXCEPT ![c].tmp = 0]
    /\ mpc' = [mpc EXCEPT ![c] = "sig_unlock"]
    /\ UNCHANGED << ioVars, layerVars, hartVars, spinVars, net >>

\* if (semaphore->count >= i) in the loop of semaphore_wait.
WaitTest(c) ==
    /\ mpc[c] = "wait_test"
    /\ mpc' = [mpc EXCEPT ![c] = IF semaphore_wait_ready(sem.count, mloc[c].i)
                                   THEN "wait_load" ELSE "wait_retry"]
    /\ UNCHANGED << ioVars, layerVars, hartVars, spinVars, sem, mloc, net >>

\* semaphore->count -= i, the load.
WaitLoad(c) ==
    /\ mpc[c] = "wait_load"
    /\ mloc' = [mloc EXCEPT ![c].tmp = sem.count]
    /\ mpc' = [mpc EXCEPT ![c] = "wait_store"]
    /\ UNCHANGED << ioVars, layerVars, hartVars, spinVars, sem, net >>

\* semaphore->count -= i, the store.
WaitStore(c) ==
    /\ mpc[c] = "wait_store"
    /\ sem' = [sem EXCEPT !.count = mloc[c].tmp - mloc[c].i]
    /\ mloc' = [mloc EXCEPT ![c].tmp = 0]
    /\ mpc' = [mpc EXCEPT ![c] = "wait_dec"]
    /\ UNCHANGED << ioVars, layerVars, hartVars, spinVars, net >>

\* atomic_add(&semaphore->waiting, -1)
WaitDec(c) ==
    /\ mpc[c] = "wait_dec"
    /\ sem' = [sem EXCEPT !.waiting = atomic_add(@, -1)]
    /\ mpc' = [mpc EXCEPT ![c] = "wait_unlock"]
    /\ UNCHANGED << ioVars, layerVars, hartVars, spinVars, mloc, net >>

\* spinlock_unlock(&semaphore->lock): the call returns, or the loop of
\* semaphore_wait goes round again.
SemUnlock(c) ==
    /\ mpc[c] \in {"sig_unlock", "wait_unlock", "wait_retry"}
    /\ sem' = [sem EXCEPT !.lock = spinlock_unlock(@)]
    /\ IF mpc[c] = "wait_retry"
          THEN /\ mpc' = [mpc EXCEPT ![c] = "wait_lock"]
               /\ UNCHANGED << mloc, net >>
          ELSE /\ mpc' = [mpc EXCEPT ![c] = "idle"]
               /\ mloc' = [mloc EXCEPT ![c] = MLocInit]
               /\ net' = IF mpc[c] = "sig_unlock" THEN net + mloc[c].i
                                                  ELSE net - mloc[c].i
    /\ UNCHANGED << ioVars, layerVars, hartVars, spinVars >>

NextSem ==
    \/ \E c \in Harts : SemSignalCall(c)
    \/ \E c \in Harts : SemWaitCall(c)
    \/ \E c \in Harts : SemLock(c)
    \/ \E c \in Harts : SigLoad(c)
    \/ \E c \in Harts : SigStore(c)
    \/ \E c \in Harts : WaitTest(c)
    \/ \E c \in Harts : WaitLoad(c)
    \/ \E c \in Harts : WaitStore(c)
    \/ \E c \in Harts : WaitDec(c)
    \/ \E c \in Harts : SemUnlock(c)

\* ------------------------------------------------------------------------
\* hartlock_t: two cores calling hartlock_lock, hartlock_trylock and
\* hartlock_unlock, each core unlocking only what it acquired.
\* ------------------------------------------------------------------------
MaxDepth == 2

MaxCount == 2

NoHart == 0 - 1

\* The values of count from which the runs go on counting.
CountRange == (0 - 1) .. MaxCount

HARTLOCK_INIT == [lock |-> SPINLOCK_INIT, count |-> 0, hart |-> NoHart]

HLocInit == [tmp |-> 0, res |-> 0, from |-> "none"]

InitHart ==
    /\ hl = HARTLOCK_INIT
    /\ hpc = [c \in Harts |-> "idle"]
    /\ hloc = [c \in Harts |-> HLocInit]
    /\ holds = [c \in Harts |-> 0]

HlGoto(c, l) == hpc' = [hpc EXCEPT ![c] = l]

\* hartlock_lock or hartlock_trylock is called.
HlAcquireCall(c) ==
    /\ hpc[c] = "idle"
    /\ holds[c] < MaxDepth
    /\ hl.count \in 0 .. MaxCount - 1
    /\ \E l \in {"l_lock", "t_lock"} : HlGoto(c, l)
    /\ hloc' = [hloc EXCEPT ![c].from = "top"]
    /\ UNCHANGED << ioVars, layerVars, spinVars, semVars, hl, holds >>

\* hartlock_unlock is called by a core that acquired the lock.
HlUnlockCall(c) ==
    /\ hpc[c] = "idle"
    /\ holds[c] > 0
    /\ hl.count \in 0 .. MaxCount
    /\ HlGoto(c, "u_lock")
    /\ holds' = [holds EXCEPT ![c] = @ - 1]
    /\ UNCHANGED << ioVars, layerVars, spinVars, semVars, hl, hloc >>

\* hartlock_unlock is called by a core that has acquired nothing.
HlUnlockForeign(c) ==
    /\ hpc[c] = "idle"
    /\ holds[c] = 0
    /\ hl.count \in 0 .. MaxCount
    /\ HlGoto(c, "u_lock")
    /\ UNCHANGED << ioVars, layerVars, spinVars, semVars, hl, hloc, holds >>

\* spinlock_lock(&lock->lock) returns: its swap read 0.
HlSpinLock(c) ==
    /\ hpc[c] \in {"l_lock", "t_lock", "u_lock"}
    /\ LET r == spinlock_trylock(hl.lock)
       IN  /\ r.res = 0
           /\ hl' = [hl EXCEPT !.lock = r.lock]
    /\ HlGoto(c, CASE hpc[c] = "l_lock" -> "l_test_count"
                   [] hpc[c] = "t_lock" -> "t_test_count"
                   [] OTHER -> "u_test_hart")
    /\ UNCHANGED << ioVars, layerVars, spinVars, semVars, hloc, holds >>

\* if (lock->count == 0) of hartlock_lock and hartlock_trylock.
HlTestCount(c) ==
    /\ hpc[c] \in {"l_test_count", "t_test_count"}
    /\ HlGoto(c, CASE hpc[c] = "l_test_count" /\ hl.count = 0 -> "l_first_load"
                   [] hpc[c] = "l_test_count" /\ hl.count # 0 -> "l_test_hart"
                   [] hpc[c] = "t_test_count" /\ hl.count = 0 -> "t_first_load"
                   [] OTHER -> "t_test_hart")
    /\ UNCHANGED << ioVars, layerVars, spinVars, semVars, hl, hloc, holds >>

\* else if (lock->hart == hart) of hartlock_lock and hartlock_trylock; the
\* else branch of hartlock_trylock sets res = -1.
HlTestHart(c) ==
    /\ hpc[c] \in {"l_test_hart", "t_test_hart"}
    /\ HlGoto(c, CASE hpc[c] = "l_test_hart" /\ hl.hart = c -> "l_same_load"
                   [] hpc[c] = "l_test_hart" /\ hl.hart # c -> "l_diff_unlock"
                   [] hpc[c] = "t_test_hart" /\ hl.hart = c -> "t_same_load"
                   [] OTHER -> "t_unlock")
    /\ hloc' = [hloc EXCEPT ![c].res =
                   IF hpc[c] = "t_test_hart" /\ hl.hart # c THEN 0 - 1 ELSE @]
    /\ UNCHANGED << ioVars, layerVars, spinVars, semVars, hl, holds >>

\* lock->count++, the load.
HlIncLoad(c) ==
    /\ hpc[c] \in {"l_first_load", "l_same_load", "t_first_load", "t_same_load"}
    /\ hl.count \in CountRange
    /\ hloc' = [hloc EXCEPT ![c].tmp = hl.count]
    /\ HlGoto(c, CASE hpc[c] = "l_first_load" -> "l_first_store"
                   [] hpc[c] = "l_same_load" -> "l_same_store"
                   [] hpc[c] = "t_first_load" -> "t_first_store"
                   [] OTHER -> "t_same_store")
    /\ UNCHANGED << ioVars, layerVars, spinVars, semVars, hl, holds >>

\* lock->count++, the store; res = 0 on the same-core branch of
\* hartlock_trylock.
HlIncStore(c) ==
    /\ hpc[c] \in {"l_first_store", "l_same_store", "t_first_store", "t_same_store"}
    /\ hl' = [hl EXCEPT !.count = hloc[c].tmp + 1]
    /\ hloc' = [hloc EXCEPT ![c].tmp = 0,
                            ![c].res = IF hpc[c] = "t_same_store" THEN 0 ELSE @]
    /\ HlGoto(c, CASE hpc[c] = "l_first_store" -> "l_set_hart"
                   [] hpc[c] = "l_same_store" -> "l_unlock"
                   [] hpc[c] = "t_first_store" -> "t_set_hart"
                   [] OTHER -> "t_unlock")
    /\ UNCHANGED << ioVars, layerVars, spinVars, semVars, holds >>

\* lock->hart = hart; and res = 0 in hartlock_trylock.
HlSetHart(c) ==
    /\ hpc[c] \in {"l_set_hart", "t_set_hart"}
    /\ hl' = [hl EXCEPT !.hart = c]
    /\ hloc' = [hloc EXCEPT ![c].res = IF hpc[c] = "t_set_hart" THEN 0 ELSE @]
    /\ HlGoto(c, IF hpc[c] = "l_set_hart" THEN "l_unlock" ELSE "t_unlock")
    /\ UNCHANGED << ioVars, layerVars, spinVars, semVars, holds >>

\* spinlock_unlock(&lock->lock) at the head of the different-core branch of
\* hartlock_lock and hartlock_unlock.
HlDiffUnlock(c) ==
    /\ hpc[c] \in {"l_diff_unlock", "u_diff_unlock"}
    /\ hl' = [hl EXCEPT !.lock = spinlock_unlock(@)]
    /\ HlGoto(c, IF hpc[c] = "l_diff_unlock" THEN "l_wait" ELSE "u_scall")
    /\ UNCHANGED << ioVars, layerVars, spinVars, semVars, hloc, holds >>

\* while (atomic_read(&lock->count)) ; reads 0 and hartlock_trylock is called.
HlWait(c) ==
    /\ hpc[c] = "l_wait"
    /\ atomic_read(hl.count) = 0
    /\ HlGoto(c, "t_lock")
    /\ hloc' = [hloc EXCEPT ![c].from = "lock"]
    /\ UNCHANGED << ioVars, layerVars, spinVars, semVars, hl, holds >>

\* spinlock_unlock and return res of hartlock_trylock: to its caller, or
\* into the loop of hartlock_lock, which ends when res is 0.
HlTryReturn(c) ==
    /\ hpc[c] = "t_unlock"
    /\ hl' = [hl EXCEPT !.lock = spinlock_unlock(@)]
    /\ IF hloc[c].from = "top"
          THEN /\ HlGoto(c, "idle")
               /\ hloc' = [hloc EXCEPT ![c] = HLocInit]
               /\ holds' = [holds EXCEPT ![c] = IF hloc[c].res = 0 THEN @ + 1 ELSE @]
          ELSE /\ HlGoto(c, IF hloc[c].res # 0 THEN "l_wait" ELSE "l_unlock")
               /\ hloc' = [hloc EXCEPT ![c].res = 0]
               /\ UNCHANGED holds
    /\ UNCHANGED << ioVars, layerVars, spinVars, semVars >>

\* The last spinlock_unlock of hartlock_lock, on every branch, and return.
HlLockReturn(c) ==
    /\ hpc[c] = "l_unlock"
    /\ hl' = [hl EXCEPT !.lock = spinlock_unlock(@)]
    /\ HlGoto(c, "idle")
    /\ hloc' = [hloc EXCEPT ![c] = HLocInit]
    /\ holds' = [holds EXCEPT ![c] = @ + 1]
    /\ UNCHANGED << ioVars, layerVars, spinVars, semVars >>

HlUnlockTestOwn(c) ==
    /\ hpc[c] = "u_test_hart"
    /\ HlGoto(c, "u_dec_load")
    /\ UNCHANGED << ioVars, layerVars, spinVars, semVars, hl, hloc, holds >>

\* if (lock->hart == hart) of hartlock_unlock.
HlUnlockTestHart(c) ==
    /\ hpc[c] = "u_test_hart"
    /\ HlGoto(c, IF hl.hart = c THEN "u_dec_load" ELSE "u_diff_unlock")
    /\ UNCHANGED << ioVars, layerVars, spinVars, semVars, hl, hloc, holds >>

\* lock->count--, the load.
HlDecLoad(c) ==
    /\ hpc[c] = "u_dec_load"
    /\ hl.count \in CountRange
    /\ hloc' = [hloc EXCEPT ![c].tmp = hl.count]
    /\ HlGoto(c, "u_dec_store")
    /\ UNCHANGED << ioVars, layerVars, spinVars, semVars, hl, holds >>

\* lock->count--, the store.
HlDecStore(c) ==
    /\ hpc[c] = "u_dec_store"
    /\ hl' = [hl EXCEPT !.count = hloc[c].tmp - 1]
    /\ hloc' = [hloc EXCEPT ![c].tmp = 0]
    /\ HlGoto(c, "u_test_le")
    /\ UNCHANGED << ioVars, layerVars, spinVars, semVars, holds >>

\* if (lock->count <= 0)
HlTestLe(c) ==
    /\ hpc[c] = "u_test_le"
    /\ HlGoto(c, IF hl.count <= 0 THEN "u_clr_hart" ELSE "u_unlock")
    /\ UNCHANGED << ioVars, layerVars, spinVars, semVars, hl, hloc, holds >>

\* lock->hart = -1; then lock->count = 0;
HlClear(c) ==
    /\ hpc[c] \in {"u_clr_hart", "u_clr_count"}
    /\ IF hpc[c] = "u_clr_hart"
          THEN hl' = [hl EXCEPT !.hart = NoHart] /\ HlGoto(c, "u_clr_count")
          ELSE hl' = [hl EXCEPT !.count = 0] /\ HlGoto(c, "u_unlock")
    /\ UNCHANGED << ioVars, layerVars, spinVars, semVars, hloc, holds >>

\* The scall of the different-core branch of hartlock_unlock: the trap
\* yields the core and the call goes on.
HlScall(c) ==
    /\ hpc[c] = "u_scall"
    /\ HlGoto(c, "u_unlock")
    /\ UNCHANGED << ioVars, layerVars, spinVars, semVars, hl, hloc, holds >>

\* The last spinlock_unlock of hartlock_unlock, on every branch, and return.
HlUnlockReturn(c) ==
    /\ hpc[c] = "u_unlock"
    /\ hl' = [hl EXCEPT !.lock = spinlock_unlock(@)]
    /\ HlGoto(c, "idle")
    /\ UNCHANGED << ioVars, layerVars, spinVars, semVars, hloc, holds >>

NextHart ==
    \/ \E c \in Harts : HlAcquireCall(c)
    \/ \E c \in Harts : HlUnlockCall(c)
    \/ \E c \in Harts : HlSpinLock(c)
    \/ \E c \in Harts : HlTestCount(c)
    \/ \E c \in Harts : HlTestHart(c)
    \/ \E c \in Harts : HlIncLoad(c)
    \/ \E c \in Harts : HlIncStore(c)
    \/ \E c \in Harts : HlSetHart(c)
    \/ \E c \in Harts : HlDiffUnlock(c)
    \/ \E c \in Harts : HlWait(c)
    \/ \E c \in Harts : HlTryReturn(c)
    \/ \E c \in Harts : HlLockReturn(c)
    \/ \E c \in Harts : HlUnlockTestHart(c)
    \/ \E c \in Harts : HlDecLoad(c)
    \/ \E c \in Harts : HlDecStore(c)
    \/ \E c \in Harts : HlTestLe(c)
    \/ \E c \in Harts : HlClear(c)
    \/ \E c \in Harts : HlScall(c)
    \/ \E c \in Harts : HlUnlockReturn(c)

\* ------------------------------------------------------------------------
\* The PIC dispatch table: pic_set_irq_handler on one core against
\* kernel_iface_pic_on_irq on the other, one memory access per step.
\* ------------------------------------------------------------------------
NumIrq == 2
NumHandlers == 2
NumContexts == 2
MaxRegistrations == 3

Irqs == 0 .. NumIrq - 1
Handlers == 1 .. NumHandlers
Contexts == 1 .. NumContexts

Unsettled == << 0 - 1, 0 - 1 >>

PLocInit ==
    [op |-> "none", irq |-> 0, handler |-> NULL, userdata |-> 0,
     quiet |-> FALSE, calls |-> << >>]

pic_store_handler_all(cb, irq, handler) == [l \in DOMAIN cb |-> handler]

\* pic_context_.pic_callbacks[irq] = handler;
pic_store_handler(cb, irq, handler) == [cb EXCEPT ![irq] = handler]

InitPic ==
    /\ pic_callbacks = [l \in Irqs |-> NULL]
    /\ callback_userdata = [l \in Irqs |-> 0]
    /\ ppc = [c \in Harts |-> "idle"]
    /\ ploc = [c \in Harts |-> PLocInit]
    /\ settled = [l \in Irqs |-> << NULL, 0 >>]
    /\ regd = [l \in Irqs |-> {}]
    /\ nset = 0

\* The locals of the other cores once core c starts a registration of line
\* irq: a call of theirs on the same line no longer runs alone.
Disturb(c, irq) ==
    [d \in Harts |->
        IF d # c /\ ploc[d].op # "none" /\ ploc[d].irq = irq
        THEN [ploc[d] EXCEPT !.quiet = FALSE]
        ELSE ploc[d]]

\* pic_set_irq_handler up to atomic_set(callback_userdata + irq, userdata).
PicSetCall(c) ==
    /\ ppc[c] = "idle"
    /\ nset < MaxRegistrations
    /\ \E irq \in Irqs, handler \in {NULL} \cup Handlers, userdata \in Contexts :
        /\ callback_userdata' = atomic_set(callback_userdata, irq, userdata)
        /\ ploc' = [Disturb(c, irq) EXCEPT ![c] =
                        [op |-> "set", irq |-> irq, handler |-> handler,
                         userdata |-> userdata,
                         quiet |-> \A d \in Harts \ {c} :
                                       ~(ploc[d].op = "set" /\ ploc[d].irq = irq),
                         calls |-> << >>]]
        /\ settled' = [settled EXCEPT ![irq] = Unsettled]
        /\ regd' = [regd EXCEPT ![irq] = @ \cup {<< handler, userdata >>}]
    /\ ppc' = [ppc EXCEPT ![c] = "set_handler"]
    /\ nset' = nset + 1
    /\ UNCHANGED << outsidePic, pic_callbacks >>

\* pic_context_.pic_callbacks[irq] = handler; and the return.
PicSetHandler(c) ==
    /\ ppc[c] = "set_handler"
    /\ pic_callbacks' = pic_store_handler(pic_callbacks, ploc[c].irq, ploc[c].handler)
    /\ settled' = [settled EXCEPT ![ploc[c].irq] =
                       IF ploc[c].quiet
                       THEN << ploc[c].handler, ploc[c].userdata >>
                       ELSE Unsettled]
    /\ ppc' = [ppc EXCEPT ![c] = "idle"]
    /\ ploc' = [ploc EXCEPT ![c] = PLocInit]
    /\ UNCHANGED << outsidePic, callback_userdata, regd, nset >>

\* kernel_iface_pic_on_irq up to if (handler): the load of the handler.
PicOnIrq(c) ==
    /\ ppc[c] = "idle"
    /\ \E irq \in Irqs :
        /\ ploc' = [ploc EXCEPT ![c] =
                        [op |-> "irq", irq |-> irq, handler |-> pic_callbacks[irq],
                         userdata |-> 0, quiet |-> settled[irq] # Unsettled,
                         calls |-> << >>]]
        /\ ppc' = [ppc EXCEPT ![c] =
                       IF pic_callbacks[irq] # NULL THEN "irq_call" ELSE "irq_ret"]
    /\ UNCHANGED << outsidePic, pic_callbacks, callback_userdata, settled, regd, nset >>

\* handler(pic_context_.callback_userdata[irq]);
PicInvoke(c) ==
    /\ ppc[c] = "irq_call"
    /\ ploc' = [ploc EXCEPT ![c].userdata = callback_userdata[ploc[c].irq],
                            ![c].calls = Append(@, << ploc[c].handler,
                                                      callback_userdata[ploc[c].irq] >>)]
    /\ ppc' = [ppc EXCEPT ![c] = "irq_ret"]
    /\ UNCHANGED << outsidePic, pic_callbacks, callback_userdata, settled, regd, nset >>

\* The return of kernel_iface_pic_on_irq.
PicReturn(c) ==
    /\ ppc[c] = "irq_ret"
    /\ ppc' = [ppc EXCEPT ![c] = "idle"]
    /\ ploc' = [ploc EXCEPT ![c] = PLocInit]
    /\ UNCHANGED << outsidePic, pic_callbacks, callback_userdata, settled, regd, nset >>

NextPic ==
    \/ \E c \in Harts : PicSetCall(c)
    \/ \E c \in Harts : PicSetHandler(c)
    \/ \E c \in Harts : PicOnIrq(c)
    \/ \E c \in Harts : PicInvoke(c)
    \/ \E c \in Harts : PicReturn(c)


\* ------------------------------------------------------------------------
\* The handle table alone: io_alloc_handle and io_close on both cores, one
\* access of handles_ per step, with the value each call returns.
\* ------------------------------------------------------------------------
NoCall == [op |-> "none", val |-> 0]

TLocInit ==
    [op |-> "none", file |-> NULL, i |-> 0, j |-> 0, h |-> 0,
     alone |-> FALSE, prev |-> NoCall]

TRetInit ==
    [c |-> 0, op |-> "none", val |-> 0, alone |-> FALSE, prev |-> NoCall, tick |-> 0]

handle_of_slot_bare(j) == j

\* return j + HANDLE_OFFSET;
handle_of_slot(j) == j + HANDLE_OFFSET

InitTbl ==
    /\ htbl = [j \in Slots |-> NULL]
    /\ tpc = [c \in Harts |-> "idle"]
    /\ tloc = [c \in Harts |-> TLocInit]
    /\ tret = TRetInit
    /\ topen = {}

\* The locals after a step of core c that leaves it with locals new: a call
\* of another core that is in progress no longer runs alone.
TStep(c, new) ==
    [d \in Harts |->
        IF d = c THEN new
        ELSE IF tpc[d] # "idle" THEN [tloc[d] EXCEPT !.alone = FALSE]
        ELSE tloc[d]]

TCallLoc(c, op) ==
    [TLocInit EXCEPT !.op = op,
                     !.alone = \A d \in Harts \ {c} : tpc[d] = "idle",
                     !.prev = [op |-> tret.op, val |-> tret.val]]

\* The return of value val from the call of core c whose locals are l; tick
\* alternates with every return.
TReturn(c, l, val) ==
    /\ tpc' = [tpc EXCEPT ![c] = "idle"]
    /\ tloc' = TStep(c, TLocInit)
    /\ tret' = [c |-> c, op |-> l.op, val |-> val, alone |-> l.alone, prev |-> l.prev,
                tick |-> 1 - tret.tick]

\* io_alloc_handle(file) up to the loops: the file is the cell a malloc of
\* io_alloc_file returned, or NULL when that malloc failed.
TblAllocCall(c) ==
    /\ tpc[c] = "idle"
    /\ \E file \in {NULL} \cup {f \in Files \ topen : \A g \in Files \ topen : f <= g} :
         IF file = NULL
         THEN /\ TReturn(c, TCallLoc(c, "alloc"), 0)
              /\ UNCHANGED << htbl, topen >>
         ELSE /\ tpc' = [tpc EXCEPT ![c] = "cas"]
              /\ tloc' = TStep(c, [TCallLoc(c, "alloc") EXCEPT !.file = file])
              /\ topen' = topen \cup {file}
              /\ UNCHANGED << htbl, tret >>
    /\ UNCHANGED outsideTbl

\* if (atomic_cas(handles_ + j, 0, file) == 0) return j + HANDLE_OFFSET;
TblAllocCas(c) ==
    /\ tpc[c] = "cas"
    /\ LET j == tloc[c].j
           r == atomic_cas(htbl, j, NULL, tloc[c].file)
       IN /\ htbl' = r.mem
          /\ IF r.old = NULL
             THEN TReturn(c, tloc[c], handle_of_slot(j))
             ELSE /\ IF j + 1 < MAX_HANDLES
                     THEN /\ tloc' = TStep(c, [tloc[c] EXCEPT !.j = j + 1])
                          /\ tpc' = tpc
                     ELSE IF tloc[c].i + 1 < ALLOC_SWEEPS
                     THEN /\ tloc' = TStep(c, [tloc[c] EXCEPT !.j = 0, !.i = @ + 1])
                          /\ tpc' = tpc
                     ELSE /\ tloc' = TStep(c, tloc[c])
                          /\ tpc' = [tpc EXCEPT ![c] = "free"]
                  /\ UNCHANGED tret
    /\ UNCHANGED << outsideTbl, topen >>

\* io_free(file); return 0;
TblAllocFree(c) ==
    /\ tpc[c] = "free"
    /\ topen' = topen \ {tloc[c].file}
    /\ TReturn(c, tloc[c], 0)
    /\ UNCHANGED << outsideTbl, htbl >>

\* io_close(file) up to the atomic_set: of 0, or of a handle that is open
\* and that no other core is closing.
TblCloseCall(c) ==
    /\ tpc[c] = "idle"
    /\ \E h \in {0} \cup HandleValues :
         IF h = 0
         THEN /\ TReturn(c, TCallLoc(c, "close"), 0)
              /\ UNCHANGED << htbl, topen >>
         ELSE /\ htbl[h - HANDLE_OFFSET] # NULL
              /\ \A d \in Harts : ~(tloc[d].op = "close" /\ tloc[d].h = h)
              /\ tpc' = [tpc EXCEPT ![c] = "set"]
              /\ tloc' = TStep(c, [TCallLoc(c, "close") EXCEPT
                                       !.h = h, !.file = htbl[h - HANDLE_OFFSET]])
              /\ topen' = topen \ {htbl[h - HANDLE_OFFSET]}
              /\ UNCHANGED << htbl, tret >>
    /\ UNCHANGED outsideTbl

\* atomic_set(handles_ + file - HANDLE_OFFSET, 0); return 0;
TblCloseSet(c) ==
    /\ tpc[c] = "set"
    /\ htbl' = atomic_set(htbl, tloc[c].h - HANDLE_OFFSET, NULL)
    /\ TReturn(c, tloc[c], tloc[c].h)
    /\ UNCHANGED << outsideTbl, topen >>

NextTbl ==
    \/ \E c \in Harts : TblAllocCall(c)
    \/ \E c \in Harts : TblAllocCas(c)
    \/ \E c \in Harts : TblAllocFree(c)
    \/ \E c \in Harts : TblCloseCall(c)
    \/ \E c \in Harts : TblCloseSet(c)


\* ------------------------------------------------------------------------
\* Dispatch on the descriptor kind: io_read, io_write, io_control and the
\* typed entry points, each taken as one step on the handle it is given.
\* ------------------------------------------------------------------------
DriverTypes ==
    {"DRIVER_UART", "DRIVER_GPIO", "DRIVER_I2C", "DRIVER_I2C_DEVICE", "DRIVER_I2S",
     "DRIVER_SPI", "DRIVER_SPI_DEVICE", "DRIVER_DVP", "DRIVER_SCCB",
     "DRIVER_SCCB_DEVICE", "DRIVER_FFT", "DRIVER_AES", "DRIVER_SHA256",
     "DRIVER_TIMER", "DRIVER_PWM", "DRIVER_WDT", "DRIVER_RTC", "DRIVER_PIC",
     "DRIVER_DMAC", "DRIVER_DMA", "DRIVER_BLOCK_STORAGE", "DRIVER_FILE",
     "DRIVER_CUSTOM"}

\* The handles the calls are given: the range, and 0, which is below it.
DispHandles == {0} \cup HandleValues

\* What the driver function returns.
MaxResult == 1
DriverResults == (0 - 1) .. MaxResult

\* The kinds that the load of a kind through a pointer that is not a live
\* file may yield: one that io_read and io_write forward, the one that
\* io_control forwards, one that no generic call forwards.
GarbageKinds == {"DRIVER_UART", "DRIVER_CUSTOM", "DRIVER_GPIO"}

\* The kinds wanted by the typed entry points of the runs: uart_config,
\* i2c_get_device, dma_set_request_source.
EntryKinds == {"DRIVER_UART", "DRIVER_I2C", "DRIVER_DMA"}

DispInit ==
    [op |-> "none", h |-> 0, live |-> FALSE, reg |-> NoReg,
     calls |-> << >>, ret |-> 0, res |-> 0, st |-> "none"]

InitDisp == disp = DispInit

\* The handle is in range, its slot holds a file, and the file is allocated.
Live(h) ==
    /\ h \in HandleValues
    /\ handles_[h - HANDLE_OFFSET] # NULL
    /\ heap[handles_[h - HANDLE_OFFSET]] # NoReg

\* rfile = handles_[file - HANDLE_OFFSET]; rfile->driver_reg->type. For a
\* handle that is not live the index is outside the array, or rfile is NULL
\* or freed: the loads fault or yield some kind, of no known driver.
Resolve(h) ==
    IF Live(h)
    THEN {[st |-> "ok", reg |-> heap[handles_[h - HANDLE_OFFSET]],
           kind |-> RegAt(heap[handles_[h - HANDLE_OFFSET]]).type]}
    ELSE {[st |-> "fault", reg |-> NoReg, kind |-> "NONE"]}
         \cup {[st |-> "ok", reg |-> NoReg, kind |-> k] : k \in GarbageKinds}

ReadKinds == {"DRIVER_UART", "DRIVER_I2C_DEVICE", "DRIVER_SPI_DEVICE"}
WriteKinds == {"DRIVER_UART", "DRIVER_I2C_DEVICE", "DRIVER_SPI_DEVICE"}
ControlKinds == {"DRIVER_CUSTOM"}

\* The chain of proxies of a generic call: the driver function fn of the
\* resolved descriptor is called when its kind is one of kinds and its
\* result r is returned; -1 is returned otherwise.
proxy_always(kinds, fn, d, r) == [ret |-> r, calls |-> << << d.reg, fn >> >>]

proxy(kinds, fn, d, r) ==
    IF d.kind \in kinds
    THEN [ret |-> r, calls |-> << << d.reg, fn >> >>]
    ELSE [ret |-> 0 - 1, calls |-> << >>]

io_read(d, r) == proxy(ReadKinds, "read", d, r)
io_write(d, r) == proxy(WriteKinds, "write", d, r)
io_control(d, r) == proxy(ControlKinds, "io_control", d, r)

\* A generic call of core c: it returns, or the core stops on the fault.
Generic(c, op, h, d, r, o) ==
    /\ pc[c] = "idle"
    /\ disp' = [op |-> op, h |-> h, live |-> Live(h), reg |-> d.reg,
                calls |-> IF d.st = "ok" THEN o.calls ELSE << >>,
                ret |-> IF d.st = "ok" THEN o.ret ELSE 0,
                res |-> IF d.st = "ok" /\ o.calls # << >> THEN r ELSE 0,
                st |-> IF d.st = "ok" THEN "returned" ELSE "fault"]
    /\ pc' = [pc EXCEPT ![c] = IF d.st = "ok" THEN "idle" ELSE "fault"]
    /\ UNCHANGED << outsideDisp, handles_, heap, used, dma_free_, loc, liveCount, faults, rt >>

\* The results of the driver function of the resolved descriptor, if the
\* call gets to one.
ResultsOf(d, kinds) == IF d.st = "ok" /\ d.kind \in kinds THEN DriverResults ELSE {0}

IoRead(c) ==
    \E h \in DispHandles : \E d \in Resolve(h) : \E r \in ResultsOf(d, ReadKinds) :
        Generic(c, "io_read", h, d, r, io_read(d, r))

IoWrite(c) ==
    \E h \in DispHandles : \E d \in Resolve(h) : \E r \in ResultsOf(d, WriteKinds) :
        Generic(c, "io_write", h, d, r, io_write(d, r))

IoControl(c) ==
    \E h \in DispHandles : \E d \in Resolve(h) : \E r \in ResultsOf(d, ControlKinds) :
        Generic(c, "io_control", h, d, r, io_control(d, r))

\* COMMON_ENTRY(tl, tu) of a typed entry point for kind want: the loads of
\* the kind, then configASSERT(rfile->driver_reg->type == DRIVER_##tu), then
\* the driver function.
CommonEntry(c) ==
    /\ pc[c] = "idle"
    /\ \E h \in DispHandles, want \in EntryKinds : \E d \in Resolve(h) :
        LET st == IF d.st # "ok" THEN "fault"
                  ELSE IF d.kind # want THEN "assert" ELSE "returned"
        IN /\ disp' = [op |-> "entry", h |-> h, live |-> Live(h), reg |-> d.reg,
                       calls |-> IF st = "returned" THEN << << d.reg, "entry" >> >>
                                 ELSE << >>,
                       ret |-> 0, res |-> 0, st |-> st]
           /\ pc' = [pc EXCEPT ![c] = CASE st = "fault" -> "fault"
                                        [] st = "assert" -> "assert_entry"
                                        [] OTHER -> "idle"]
    /\ UNCHANGED << outsideDisp, handles_, heap, used, dma_free_, loc, liveCount, faults, rt >>

\* ------------------------------------------------------------------------
\* The dynamic driver table: install_custom_driver_core on both cores, one
\* access of g_custom_drivers per step.
\* ------------------------------------------------------------------------
MAX_CUSTOM_DRIVERS == 2
MaxInstalls == 3

CustomSlots == 1 .. MAX_CUSTOM_DRIVERS

NoDriver == [name |-> NullName, type |-> "NONE", driver |-> NULL]

CustomTypes == {"DRIVER_CUSTOM", "DRIVER_I2C_DEVICE"}

\* The names the registrations are given; a name may be given again.
CustomNames == {<<"/dev/custom", 1>>, <<"/dev/custom", 2>>}

CLocInit == [desc |-> NoDriver, i |-> 1]

\* No sub-device call in progress on a core; no call returned yet.
NoSubCall == [op |-> "none", calls |-> << >>]

NoSubRet == [op |-> "none", calls |-> << >>, slot |-> 0, h |-> 0 - 1,
             fresh |-> FALSE]

InitSub ==
    sub = [cur |-> [c \in Harts |-> NoSubCall],
           handles |-> [j \in Slots |-> 0],
           ret |-> NoSubRet]

InitDyn ==
    /\ g_custom_drivers = [i \in CustomSlots |-> NoDriver]
    /\ cpc = [c \in Harts |-> "idle"]
    /\ cloc = [c \in Harts |-> CLocInit]
    /\ installed = << >>
    /\ ninst = 0

\* install_custom_driver_core(name, type, driver): the n-th call of the run
\* registers the driver numbered n, under a new name or one given before.
DynCall(c) ==
    /\ cpc[c] = "idle"
    /\ ninst < MaxInstalls
    /\ \E type \in CustomTypes, name \in CustomNames :
         cloc' = [cloc EXCEPT ![c] =
                      [desc |-> [name |-> name, type |-> type,
                                 driver |-> ninst + 1],
                       i |-> 1]]
    /\ ninst' = ninst + 1
    /\ cpc' = [cpc EXCEPT ![c] = "test"]
    /\ UNCHANGED << outsideDyn, g_custom_drivers, installed >>

\* for (i = 0; i < MAX_CUSTOM_DRIVERS; i++, head++) if (!head->name), and
\* configASSERT(!"Max custom drivers exceeded.") after the loop.
DynTest(c) ==
    /\ cpc[c] = "test"
    /\ IF cloc[c].i > MAX_CUSTOM_DRIVERS
       THEN /\ cpc' = [cpc EXCEPT ![c] = "assert_custom"]
            /\ cloc' = cloc
       ELSE IF g_custom_drivers[cloc[c].i].name = NullName
       THEN /\ cpc' = [cpc EXCEPT ![c] = "name"]
            /\ cloc' = cloc
       ELSE /\ cpc' = cpc
            /\ cloc' = [cloc EXCEPT ![c].i = @ + 1]
    /\ UNCHANGED << outsideDyn, g_custom_drivers, installed, ninst >>

\* head->name = strdup(name);
DynName(c) ==
    /\ cpc[c] = "name"
    /\ g_custom_drivers' = [g_custom_drivers EXCEPT ![cloc[c].i].name = cloc[c].desc.name]
    /\ cpc' = [cpc EXCEPT ![c] = "type"]
    /\ UNCHANGED << outsideDyn, cloc, installed, ninst >>

\* head->type = type;
DynType(c) ==
    /\ cpc[c] = "type"
    /\ g_custom_drivers' = [g_custom_drivers EXCEPT ![cloc[c].i].type = cloc[c].desc.type]
    /\ cpc' = [cpc EXCEPT ![c] = "driver"]
    /\ UNCHANGED << outsideDyn, cloc, installed, ninst >>

\* head->driver = driver; return head; to install_custom_driver, which
\* returns, or to the get_device call, which goes on with the entry.
DynDriver(c) ==
    /\ cpc[c] = "driver"
    /\ g_custom_drivers' = [g_custom_drivers EXCEPT ![cloc[c].i].driver = cloc[c].desc.driver]
    /\ installed' = Append(installed, [slot |-> cloc[c].i, desc |-> cloc[c].desc])
    /\ IF sub.cur[c] = NoSubCall
       THEN /\ cpc' = [cpc EXCEPT ![c] = "idle"]
            /\ cloc' = [cloc EXCEPT ![c] = CLocInit]
       ELSE /\ cpc' = [cpc EXCEPT ![c] = "alloc"]
            /\ cloc' = cloc
    /\ UNCHANGED << outsideDyn, ninst >>

NextDyn ==
    \/ \E c \in Harts : DynCall(c)
    \/ \E c \in Harts : DynTest(c)
    \/ \E c \in Harts : DynName(c)
    \/ \E c \in Harts : DynType(c)
    \/ \E c \in Harts : DynDriver(c)

\* The bus kinds with a get_device entry point, and the kind each registers.
BusKinds == {"DRIVER_I2C", "DRIVER_SPI", "DRIVER_SCCB"}

device_kind(bus) ==
    CASE bus = "DRIVER_I2C" -> "DRIVER_I2C_DEVICE"
      [] bus = "DRIVER_SPI" -> "DRIVER_SPI_DEVICE"
      [] bus = "DRIVER_SCCB" -> "DRIVER_SCCB_DEVICE"

get_device_entry(bus) ==
    CASE bus = "DRIVER_I2C" -> "i2c_get_device"
      [] bus = "DRIVER_SPI" -> "spi_get_device"
      [] bus = "DRIVER_SCCB" -> "sccb_get_device"

\* The handles the sub-device calls have returned and nobody closed.
SubLive == {handle_of_slot(j) : j \in {k \in Slots : sub.handles[k] # 0}}

\* i2c_get_device / spi_get_device / sccb_get_device on a handle of the bus
\* kind: COMMON_ENTRY passes, the bus driver's get_device makes the driver
\* (the n-th call of the run gets the driver numbered n), and
\* install_custom_driver_core is entered with the device kind.
GetDeviceCall(c) ==
    /\ cpc[c] = "idle"
    /\ ninst < MaxInstalls
    /\ \E bus \in BusKinds, name \in CustomNames :
         /\ cloc' = [cloc EXCEPT ![c] =
                        [desc |-> [name |-> name, type |-> device_kind(bus),
                                   driver |-> ninst + 1],
                         i |-> 1]]
         /\ sub' = [sub EXCEPT !.cur[c] = [op |-> get_device_entry(bus),
                                          calls |-> << "get_device" >>]]
    /\ ninst' = ninst + 1
    /\ cpc' = [cpc EXCEPT ![c] = "test"]
    /\ UNCHANGED << outsideSub, g_custom_drivers, installed >>

\* return io_alloc_handle(io_alloc_file(reg)): the malloc fails or not, then
\* the sweep for an empty slot, run here in one step; with no empty slot
\* io_free(file) calls the close of the device driver and the call returns 0.
GetDeviceAlloc(c) ==
    /\ cpc[c] = "alloc"
    /\ \E fail \in BOOLEAN :
         LET reg == cloc[c].i
             free_slots == {j \in Slots : sub.handles[j] = 0}
             j == CHOOSE k \in free_slots : \A m \in free_slots : k <= m
             got == ~fail /\ free_slots # {}
             calls == IF ~fail /\ free_slots = {}
                      THEN Append(sub.cur[c].calls, "close")
                      ELSE sub.cur[c].calls
         IN sub' = [sub EXCEPT
                       !.cur[c] = NoSubCall,
                       !.handles = IF got THEN [@ EXCEPT ![j] = reg] ELSE @,
                       !.ret = [op |-> sub.cur[c].op, calls |-> calls,
                                slot |-> reg,
                                h |-> IF got THEN handle_of_slot(j) ELSE 0,
                                fresh |-> got /\ handle_of_slot(j) \notin SubLive]]
    /\ cpc' = [cpc EXCEPT ![c] = "idle"]
    /\ cloc' = [cloc EXCEPT ![c] = CLocInit]
    /\ UNCHANGED << outsideSub, g_custom_drivers, installed, ninst >>

\* Both cores calling the get_device entry points.
NextSub ==
    \/ \E c \in Harts : GetDeviceCall(c)
    \/ \E c \in Harts : DynTest(c)
    \/ \E c \in Harts : DynName(c)
    \/ \E c \in Harts : DynType(c)
    \/ \E c \in Harts : DynDriver(c)
    \/ \E c \in Harts : GetDeviceAlloc(c)


\* ------------------------------------------------------------------------
\* Bring-up: os_entry on core 0, os_entry_core1 on core 1.  Core 0 runs the
\* steps of os_entry one after the other; nothing else runs until core 1 is
\* awake or a scheduler has started, so each io_open of the bring-up is one
\* step.  Task creation, the schedulers and the inter-processor wake-up are
\* those of FreeRTOS and the board support package.
\* ------------------------------------------------------------------------
\* The handle table of the bring-up runs: one slot per device os_entry opens.
BootHandles == 4

BootSlots == 0 .. (BootHandles - 1)

\* What user_main returns.
MaxMainResult == 2

MainResults == 1 .. MaxMainResult

\* One step of os_entry: the call, the table it installs, the name it opens.
BootStep(op, t, name) == [op |-> op, t |-> t, name |-> name]

PicName == <<"/dev/pic", 0>>

AcceleratorNames == << <<"/dev/fft", 0>>, <<"/dev/aes", 0>>, <<"/dev/sha", 256>> >>

install_hal_pool_first ==
    << BootStep("install", "hal", NullName),
       BootStep("io_open", "none", PicName),
       BootStep("assert_pic_file", "none", NullName),
       BootStep("init_dma_system", "none", NullName),
       BootStep("install", "dma", NullName) >>

install_hal ==
    << BootStep("install", "hal", NullName),
       BootStep("io_open", "none", PicName),
       BootStep("assert_pic_file", "none", NullName),
       BootStep("install", "dma", NullName),
       BootStep("init_dma_system", "none", NullName) >>

install_drivers ==
    << BootStep("install", "system", NullName) >>
    \o [i \in 1 .. Len(AcceleratorNames) |-> BootStep("io_open", "none", AcceleratorNames[i])]

os_entry ==
    install_hal \o install_drivers
    \o << BootStep("configure_fpioa", "none", NullName),
          BootStep("xTaskCreate", "none", NullName),
          BootStep("core_sync_awaken", "none", NullName),
          BootStep("vTaskStartScheduler", "none", NullName),
          BootStep("return", "none", NullName) >>

NoSem == [count |-> 0 - 1, max |-> 0 - 1]

NoRet == 0 - 2

InitBoot ==
    boot = [pos |-> 1, st |-> "run", log |-> << >>, opens |-> << >>,
            installed |-> << >>,
            handles |-> [j \in BootSlots |-> NoReg],
            used |-> [r \in AllRegs |-> FALSE],
            files |-> << >>,
            dma_free_ |-> NoSem,
            task |-> "none", param_ret |-> 0, main |-> NoRet,
            sched |-> [c \in Harts |-> "off"],
            core1 |-> "asleep",
            ret |-> NoRet]

BootAt(op) ==
    /\ boot.st = "run"
    /\ boot.pos <= Len(os_entry)
    /\ os_entry[boot.pos].op = op

\* The step at the position of core 0 is over.
BootNext(b) ==
    [b EXCEPT !.pos = @ + 1, !.log = Append(@, os_entry[boot.pos])]

\* install_hal_drivers / install_dma_drivers / install_system_drivers: the
\* install function of every entry up to the NULL name.
BootInstall ==
    /\ BootAt("install")
    /\ boot' = [BootNext(boot) EXCEPT !.installed = Append(@, os_entry[boot.pos].t)]
    /\ UNCHANGED outsideBoot

\* One lookup of io_open with its io_alloc_file; fail: its malloc fails.
boot_open_reg(t, name, u, fail) ==
    LET d == find_free_driver(t, name, u)
    IN [file |-> IF fail THEN NoReg ELSE d.reg, used |-> d.used]

\* io_alloc_handle with nothing else running: the first empty slot, or
\* io_free(file) and 0 when there is none.
boot_alloc_handle(tbl, u, file) ==
    LET free_slots == {j \in BootSlots : tbl[j] = NoReg}
    IN IF free_slots # {}
       THEN LET j == CHOOSE j \in free_slots : \A k \in free_slots : j <= k
            IN [h |-> handle_of_slot(j), handles |-> [tbl EXCEPT ![j] = file], used |-> u]
       ELSE [h |-> 0, handles |-> tbl, used |-> driver_close(u, file)]

\* pic_file_ = io_open("/dev/pic0") and the three opens of install_drivers.
BootOpen ==
    /\ BootAt("io_open")
    /\ \E f1 \in BOOLEAN, f2 \in BOOLEAN :
         LET name == os_entry[boot.pos].name
             s == boot_open_reg("system", name, boot.used, f1)
             r == IF s.file # NoReg THEN s
                  ELSE boot_open_reg("hal", name, s.used, f2)
             opened == [boot EXCEPT !.opens = Append(@, name), !.used = r.used]
         IN IF r.file = NoReg
            THEN \* configASSERT(file) in io_open
                 boot' = [opened EXCEPT !.st = "assert_open"]
            ELSE LET a == boot_alloc_handle(boot.handles, r.used, r.file)
                 IN boot' = [BootNext(opened) EXCEPT
                                !.handles = a.handles,
                                !.used = a.used,
                                !.files = Append(@, <<name, a.h>>)]
    /\ UNCHANGED outsideBoot

\* configASSERT(pic_file_)
BootAssertPic ==
    /\ BootAt("assert_pic_file")
    /\ boot' = IF boot.files[1][2] # 0 THEN BootNext(boot)
               ELSE [boot EXCEPT !.st = "assert_pic_file"]
    /\ UNCHANGED outsideBoot

\* init_dma_system() over the g_dma_drivers of the run.
BootInitDma ==
    /\ BootAt("init_dma_system")
    /\ LET count == CountEntries(Table("dma"), 1)
       IN boot' = [BootNext(boot) EXCEPT
                      !.dma_free_ = xSemaphoreCreateCounting(count, count)]
    /\ UNCHANGED outsideBoot

\* configure_fpioa(), the weak default: return 0.
BootFpioa ==
    /\ BootAt("configure_fpioa")
    /\ boot' = BootNext(boot)
    /\ UNCHANGED outsideBoot

\* What os_entry does with the result of xTaskCreate.
after_create_ignored(b, passed) ==
    [b EXCEPT !.task = IF passed THEN "created" ELSE "failed"]

after_create(b, passed) ==
    IF passed THEN [b EXCEPT !.task = "created"]
    ELSE [b EXCEPT !.task = "failed", !.st = "done", !.ret = 0 - 1]

\* xTaskCreate(main_thunk, ...) passes or fails.
BootTaskCreate ==
    /\ BootAt("xTaskCreate")
    /\ \E passed \in BOOLEAN :
         boot' = after_create(BootNext(boot), passed)
    /\ UNCHANGED outsideBoot

\* core_sync_awaken((uintptr_t)os_entry_core1)
BootAwaken ==
    /\ BootAt("core_sync_awaken")
    /\ boot' = [BootNext(boot) EXCEPT !.core1 = "entry"]
    /\ UNCHANGED outsideBoot

\* vTaskStartScheduler() on core 0 is entered.
BootStartScheduler ==
    /\ BootAt("vTaskStartScheduler")
    /\ boot.sched[0] = "off"
    /\ boot' = [boot EXCEPT !.sched[0] = "running"]
    /\ UNCHANGED outsideBoot

\* The scheduler of core 0 returns, whenever it does.
BootSchedulerReturns ==
    /\ BootAt("vTaskStartScheduler")
    /\ boot.sched[0] = "running"
    /\ boot' = [BootNext(boot) EXCEPT !.sched[0] = "returned"]
    /\ UNCHANGED outsideBoot

\* return param.ret
BootReturn ==
    /\ BootAt("return")
    /\ boot' = [BootNext(boot) EXCEPT !.st = "done", !.ret = boot.param_ret]
    /\ UNCHANGED outsideBoot

\* os_entry_core1: interrupt set-up, then vTaskStartScheduler().
Core1Start ==
    /\ boot.core1 = "entry"
    /\ boot' = [boot EXCEPT !.core1 = "scheduler", !.sched[1] = "running"]
    /\ UNCHANGED outsideBoot

\* main_thunk, the task "Core 0 Main", under the scheduler of core 0:
\* param->ret = user_main(0, 0).
MainThunk ==
    /\ boot.task = "created"
    /\ boot.sched[0] = "running"
    /\ \E r \in MainResults :
         boot' = [boot EXCEPT !.task = "returned", !.main = r, !.param_ret = r]
    /\ UNCHANGED outsideBoot

NextBoot ==
    \/ BootInstall
    \/ BootOpen
    \/ BootAssertPic
    \/ BootInitDma
    \/ BootFpioa
    \/ BootTaskCreate
    \/ BootAwaken
    \/ BootStartScheduler
    \/ BootSchedulerReturns
    \/ BootReturn
    \/ Core1Start
    \/ MainThunk


\* ------------------------------------------------------------------------
\* DMA transfers: dma_transmit on one channel and dma_loop_async on another.
\* The completion events are FreeRTOS binary semaphores; the driver behind
\* transmit_async and loop_async signals them from its interrupt handler.
\* ------------------------------------------------------------------------
MaxEvents == 2
Events == 1 .. MaxEvents

MaxTransfers == 2

MaxStages == 3

\* The types of the handles the calls are made on.
XferTypes == {"DMA", "UART"}

\* The address of the caller's stop flag.
StopFlag == 1

FreeEvents(s) == {e \in Events : s[e] = NoSem}

\* xSemaphoreCreateBinary: a new binary semaphore, created empty.
xSemaphoreCreateBinary(s) ==
    LET e == CHOOSE e \in FreeEvents(s) : \A f \in FreeEvents(s) : e <= f
    IN [event |-> e, sems |-> [s EXCEPT ![e] = [count |-> 0, max |-> 1]]]

vSemaphoreDelete(s, e) == [s EXCEPT ![e] = NoSem]

NoTx == [pc |-> "idle", type |-> "DMA", event |-> NULL, fresh |-> TRUE,
         calls |-> << >>, hist |-> << >>, n |-> 0]

NoLoop == [pc |-> "idle", type |-> "DMA", event |-> NULL, stop_signal |-> NULL,
           stages |-> 0, begun |-> 0, handled |-> 0, signals |-> 0]

InitXfer ==
    xfer = [sems |-> [e \in Events |-> NoSem], pending |-> {}, tx |-> NoTx,
            loop |-> NoLoop, stop |-> 0, stopAt |-> 0 - 1]

\* What happened to the event of the running dma_transmit call.
TxHist(x, what) == [x EXCEPT !.tx.hist = Append(@, what)]

\* dma_transmit: SemaphoreHandle_t event = xSemaphoreCreateBinary().
TxCreate ==
    /\ xfer.tx.pc \in {"idle", "returned"}
    /\ xfer.tx.n < MaxTransfers
    /\ FreeEvents(xfer.sems) # {}
    /\ \E type \in XferTypes :
        LET a == xSemaphoreCreateBinary(xfer.sems)
        IN xfer' = [xfer EXCEPT
                      !.sems = a.sems,
                      !.tx = [pc |-> "async", type |-> type, event |-> a.event,
                              fresh |-> xfer.sems[a.event] = NoSem,
                              calls |-> << >>, hist |-> << "create" >>,
                              n |-> xfer.tx.n]]
    /\ UNCHANGED outsideXfer

\* dma_transmit_async: COMMON_ENTRY(dma, DMA), then the driver's
\* transmit_async with the caller's completion event.
dma_transmit_async(x, type, event) ==
    IF type # "DMA" THEN [x EXCEPT !.tx.pc = "assert_entry"]
    ELSE [x EXCEPT !.tx.pc = "take",
                   !.tx.calls = Append(@, << "transmit_async", event >>),
                   !.tx.hist = Append(@, "async"),
                   !.pending = @ \cup {event}]

TxAsync ==
    /\ xfer.tx.pc = "async"
    /\ xfer' = dma_transmit_async(xfer, xfer.tx.type, xfer.tx.event)
    /\ UNCHANGED outsideXfer

\* The driver's completion interrupt of a programmed transfer: it signals
\* the completion event of the transfer, once.
TransferDone ==
    /\ \E e \in xfer.pending :
        LET x == [xfer EXCEPT !.sems[e] = xSemaphoreGive(@), !.pending = @ \ {e}]
        IN xfer' = IF e = xfer.tx.event THEN TxHist(x, "signal") ELSE x
    /\ UNCHANGED outsideXfer

dma_transmit_poll(s) == TRUE

\* xSemaphoreTake(event, portMAX_DELAY): the caller stays blocked while the
\* event is empty.
dma_transmit_wait(s) == xSemaphoreTakeReady(s)

\* configASSERT(xSemaphoreTake(event, portMAX_DELAY) == pdTRUE).
TxTake ==
    /\ xfer.tx.pc = "take"
    /\ dma_transmit_wait(xfer.sems[xfer.tx.event])
    /\ xfer' = TxHist([xfer EXCEPT !.sems[xfer.tx.event] = xSemaphoreTake(@),
                                   !.tx.pc = "delete"], "take")
    /\ UNCHANGED outsideXfer

\* vSemaphoreDelete(event), and dma_transmit returns.
TxDelete ==
    /\ xfer.tx.pc = "delete"
    /\ xfer' = TxHist([xfer EXCEPT !.sems = vSemaphoreDelete(@, xfer.tx.event),
                                   !.tx.pc = "returned",
                                   !.tx.n = @ + 1], "delete")
    /\ UNCHANGED outsideXfer

\* The driver's loop_async: it keeps the handler, the completion event and
\* the stop flag, and starts the first stage.
loop_async(l, stages, event, stop_signal) ==
    [l EXCEPT !.pc = "running", !.stages = stages, !.event = event,
              !.stop_signal = stop_signal, !.begun = 1]

dma_loop_async_no_flag(l, type, stages, event, stop_signal) ==
    IF type # "DMA" THEN [l EXCEPT !.pc = "assert_entry"]
    ELSE loop_async(l, stages, event, NULL)

\* dma_loop_async: COMMON_ENTRY(dma, DMA), then the driver's loop_async with
\* the caller's handler, completion event and stop flag.
dma_loop_async(l, type, stages, event, stop_signal) ==
    IF type # "DMA" THEN [l EXCEPT !.pc = "assert_entry"]
    ELSE loop_async(l, stages, event, stop_signal)

\* The caller creates the completion event and starts the loop over stages
\* buffers.
LoopCall ==
    /\ xfer.loop.pc = "idle"
    /\ FreeEvents(xfer.sems) # {}
    /\ \E type \in XferTypes, stages \in 1 .. MaxStages :
        LET a == xSemaphoreCreateBinary(xfer.sems)
        IN xfer' = [xfer EXCEPT
                      !.sems = a.sems,
                      !.loop = dma_loop_async([@ EXCEPT !.type = type, !.event = a.event],
                                              type, stages, a.event, StopFlag)]
    /\ UNCHANGED outsideXfer

\* The stop flag as the driver reads it.
StopRead(x) == x.loop.stop_signal = StopFlag /\ x.stop = 1

\* The driver's interrupt at the end of a stage: the stage handler, then the
\* stop flag; the loop ends with the completion signal when the flag is set
\* or the buffers are exhausted, and the next stage starts otherwise.
LoopStageDone ==
    /\ xfer.loop.pc = "running"
    /\ LET h == [xfer EXCEPT !.loop.handled = @ + 1]
       IN xfer' = IF StopRead(xfer) \/ xfer.loop.begun = xfer.loop.stages
                  THEN [h EXCEPT !.sems[xfer.loop.event] = xSemaphoreGive(@),
                                 !.loop.signals = @ + 1,
                                 !.loop.pc = "completed"]
                  ELSE [h EXCEPT !.loop.begun = @ + 1]
    /\ UNCHANGED outsideXfer

\* The caller sets its stop flag.
SetStop ==
    /\ xfer.stop = 0
    /\ xfer' = [xfer EXCEPT !.stop = 1, !.stopAt = xfer.loop.begun]
    /\ UNCHANGED outsideXfer

\* The caller takes the completion event of the loop and deletes it.
LoopFinish ==
    /\ xfer.loop.pc = "completed"
    /\ xSemaphoreTakeReady(xfer.sems[xfer.loop.event])
    /\ xfer' = [xfer EXCEPT !.sems = vSemaphoreDelete(@, xfer.loop.event),
                            !.loop.pc = "closed"]
    /\ UNCHANGED outsideXfer

NextXfer ==
    \/ TxCreate
    \/ TxAsync
    \/ TransferDone
    \/ TxTake
    \/ TxDelete
    \/ LoopCall
    \/ LoopStageDone
    \/ SetStop
    \/ LoopFinish


\* ------------------------------------------------------------------------
\* Driver opens and closes, call by call: io_open, dma_open_free, the
\* get_device calls and io_close run one after the other, each to its
\* return, with the open checks and close calls of every descriptor counted.
\* ------------------------------------------------------------------------
MaxBalCalls == 4

\* The names io_open is called with.
BalNames == {<<"/dev/fft", 0>>, <<"/dev/uart", 1>>}

\* The entries of g_custom_drivers.
CustomRefs == {<<"custom", k>> : k \in 1 .. MAX_CUSTOM_DRIVERS}

BalDescs == AllRegs \cup CustomRefs

InitBal ==
    bal = [opens |-> [d \in BalDescs |-> 0],
           closes |-> [d \in BalDescs |-> 0],
           used |-> [r \in AllRegs |-> FALSE],
           table |-> [j \in Slots |-> NoReg],
           pool |-> init_dma_system,
           ncustom |-> 0,
           calls |-> 0,
           halted |-> FALSE,
           op |-> "none",
           arg |-> 0,
           ret |-> 0]

\* The open check of find_free_driver or of the scan of dma_open_free,
\* counted when it succeeds.
BalOpened(b, d) ==
    IF d.reg # NoReg
    THEN [b EXCEPT !.used = d.used, !.opens[d.reg] = @ + 1]
    ELSE [b EXCEPT !.used = d.used]

\* io_free(file): the pool unit of a DMA descriptor, then the driver's close.
bal_io_free(b, reg) ==
    [b EXCEPT !.pool = IF reg[1] = "dma" THEN xSemaphoreGive(@) ELSE @,
              !.closes[reg] = @ + 1,
              !.used = IF reg \in AllRegs THEN driver_close(@, reg) ELSE @]

\* io_alloc_handle(io_alloc_file(reg)) called alone: a NULL descriptor or a
\* failed malloc gives NULL and 0; otherwise the file takes the first empty
\* slot, or is released with io_free when there is none.
bal_alloc(b, reg, fail) ==
    LET empty == {j \in Slots : b.table[j] = NoReg}
       first == CHOOSE j \in empty : \A k \in empty : j <= k
    IN IF reg = NoReg \/ fail THEN [b EXCEPT !.ret = 0]
       ELSE IF empty # {}
       THEN [b EXCEPT !.table[first] = reg, !.ret = handle_of_slot(first)]
       ELSE [bal_io_free(b, reg) EXCEPT !.ret = 0]

\* The call that has just returned or halted, and its argument.
BalCalled(b, op, arg) == [b EXCEPT !.calls = @ + 1, !.op = op, !.arg = arg]

BalReady == ~bal.halted /\ bal.calls < MaxBalCalls

\* io_open(name): the system table, then the HAL table when the first gave
\* no file; configASSERT(file) when neither did.
BalIoOpen ==
    /\ BalReady
    /\ \E name \in BalNames, fail1 \in BOOLEAN, fail2 \in BOOLEAN :
        LET d1 == find_free_driver("system", name, bal.used)
            b1 == BalOpened(bal, d1)
            got1 == d1.reg # NoReg /\ ~fail1
            d2 == find_free_driver("hal", name, b1.used)
            b2 == BalOpened(b1, d2)
            got2 == d2.reg # NoReg /\ ~fail2
        IN bal' = BalCalled(IF got1 THEN bal_alloc(b1, d1.reg, FALSE)
                            ELSE IF got2 THEN bal_alloc(b2, d2.reg, FALSE)
                            ELSE [b2 EXCEPT !.halted = TRUE],
                            "io_open", 0)
    /\ UNCHANGED outsideBal

RECURSIVE FirstOpenable(_, _)
\* The scan of dma_open_free: the first entry of g_dma_drivers whose open
\* succeeds, 0 when the scan reaches the NULL name.
FirstOpenable(u, head) ==
    IF g_dma_drivers[head].name = NullName THEN 0
    ELSE IF driver_open(u, <<"dma", head>>).ok THEN head
    ELSE FirstOpenable(u, head + 1)

\* dma_open_free(): the pool unit, the scan, configASSERT(driver_reg), then
\* io_alloc_handle(io_alloc_file(driver_reg)).
BalDmaOpenFree ==
    /\ BalReady
    /\ xSemaphoreTakeReady(bal.pool)
    /\ \E fail \in BOOLEAN :
        LET b0 == [bal EXCEPT !.pool = xSemaphoreTake(@)]
            head == FirstOpenable(bal.used, 1)
            reg == <<"dma", head>>
            b1 == BalOpened(b0, [reg |-> reg, used |-> driver_open(bal.used, reg).used])
        IN bal' = BalCalled(IF head = 0 THEN [b0 EXCEPT !.halted = TRUE]
                            ELSE bal_alloc(b1, reg, fail),
                            "dma_open_free", 0)
    /\ UNCHANGED outsideBal

\* i2c_get_device, spi_get_device, sccb_get_device: the bus driver makes the
\* device driver, install_custom_driver_core registers it in the first empty
\* entry (configASSERT when there is none), then
\* io_alloc_handle(io_alloc_file(reg)).
BalGetDevice ==
    /\ BalReady
    /\ \E fail \in BOOLEAN :
        bal' = BalCalled(IF bal.ncustom = MAX_CUSTOM_DRIVERS
                         THEN [bal EXCEPT !.halted = TRUE]
                         ELSE bal_alloc([bal EXCEPT !.ncustom = @ + 1],
                                        <<"custom", bal.ncustom + 1>>, fail),
                         "get_device", 0)
    /\ UNCHANGED outsideBal

\* The arguments io_close is called with: 0, the handles of the range, and
\* one value on each side of the range.
OutOfRange == {HANDLE_OFFSET - 1, HANDLE_OFFSET + MAX_HANDLES}
CloseArgs == {0} \cup HandleValues \cup OutOfRange

\* io_close(file): nothing for 0; otherwise rfile = handles_[file -
\* HANDLE_OFFSET], io_free(rfile), which does nothing for NULL, the slot is
\* set to 0, and 0 is returned. For a handle outside the range the load is
\* outside handles_: the word loaded is 0 (zero) and the call goes on as for
\* an empty slot, storing 0 over it, or it is not and io_free runs on
\* whatever was loaded.
bal_io_close_first_slot(b, h, zero) ==
    IF h = 0 THEN [b EXCEPT !.ret = 0]
    ELSE IF h \in OutOfRange
    THEN IF zero THEN [b EXCEPT !.ret = 0] ELSE [b EXCEPT !.halted = TRUE]
    ELSE IF b.table[h - HANDLE_OFFSET] # NoReg
    THEN [bal_io_free(b, b.table[h - HANDLE_OFFSET])
             EXCEPT !.table[h - HANDLE_OFFSET] = NoReg, !.ret = 0]
    ELSE [b EXCEPT !.table[0] = NoReg, !.ret = 0]

bal_io_close(b, h, zero) ==
    IF h = 0 THEN [b EXCEPT !.ret = 0]
    ELSE IF h \in OutOfRange
    THEN IF zero THEN [b EXCEPT !.ret = 0] ELSE [b EXCEPT !.halted = TRUE]
    ELSE IF b.table[h - HANDLE_OFFSET] # NoReg
    THEN [bal_io_free(b, b.table[h - HANDLE_OFFSET])
             EXCEPT !.table[h - HANDLE_OFFSET] = NoReg, !.ret = 0]
    ELSE [b EXCEPT !.table[h - HANDLE_OFFSET] = NoReg, !.ret = 0]

BalIoClose ==
    /\ BalReady
    /\ \E h \in CloseArgs, zero \in BOOLEAN :
        bal' = BalCalled(bal_io_close(bal, h, zero), "io_close", h)
    /\ UNCHANGED outsideBal

NextBal ==
    \/ BalIoOpen
    \/ BalDmaOpenFree
    \/ BalGetDevice
    \/ BalIoClose


\* ------------------------------------------------------------------------
\* The two cores running I/O calls.
\* ------------------------------------------------------------------------
InitIo ==
    /\ handles_ = [j \in Slots |-> NULL]
    /\ heap = [f \in Files |-> NoReg]
    /\ used = [r \in AllRegs |-> FALSE]
    /\ dma_free_ = init_dma_system
    /\ pc = [c \in Harts |-> "idle"]
    /\ loc = [c \in Harts |-> LocInit]
    /\ liveCount = [j \in Slots |-> 0]
    /\ faults = [stale |-> 0, fail |-> 0]
    /\ rt = RtOff

Next ==
    \/ \E c \in Harts : IoOpenCall(c)
    \/ \E c \in Harts : IoOpenHal(c)
    \/ \E c \in Harts : AllocCas(c)
    \/ \E c \in Harts : FreeType(c)
    \/ \E c \in Harts : FreeClose(c)
    \/ \E c \in Harts : FreeMem(c)
    \/ \E c \in Harts : IoCloseCall(c)
    \/ \E c \in Harts : CloseSet(c)
    \/ \E c \in Harts : DmaOpenFreeCall(c)
    \/ \E c \in Harts : DmaTake(c)
    \/ \E c \in Harts : DmaScan(c)
    \/ \E c \in Harts : DmaFile(c)

NextStale ==
    \/ Next
    \/ \E c \in Harts : FreeFault(c)
    \/ \E c \in Harts : IoCloseStale(c)

vars == << ioVars, lockVars, layerVars >>

\* The tables of the I/O runs.
InitDrivers ==
    drivers = [dma |-> g_dma_drivers, system |-> g_system_drivers, hal |-> g_hal_drivers]

InitLayer == InitPic /\ InitTbl /\ InitDisp /\ InitDyn /\ InitBoot /\ InitSub /\ InitXfer /\ InitBal

Init == InitDrivers /\ InitIo /\ InitSpin /\ InitSem /\ InitHart /\ InitLayer

\* Both cores running io_open, dma_open_free and io_close on open handles.
Spec == Init /\ [][Next]_vars

\* The same, with io_close also called on handles that are not open.
SpecStale == Init /\ [][NextStale]_vars

\* A step of core c inside a call it has started.
IoStep(c) ==
    \/ IoOpenHal(c)
    \/ AllocCas(c)
    \/ FreeType(c)
    \/ FreeClose(c)
    \/ FreeMem(c)
    \/ CloseSet(c)
    \/ DmaTake(c)
    \/ DmaScan(c)
    \/ DmaFile(c)

\* The I/O runs with both cores executing: a core that can take the next
\* step of its call takes it.
SpecFair == Init /\ [][Next]_vars /\ \A c \in Harts : WF_vars(IoStep(c))

\* Both cores running the spinlock calls.
SpecSpin == Init /\ [][NextSpin]_vars

\* Both cores running the hartlock calls.
SpecHart == Init /\ [][NextHart]_vars

\* A step of core c inside a hartlock call it has started.
HlStep(c) ==
    \/ HlSpinLock(c)
    \/ HlTestCount(c)
    \/ HlTestHart(c)
    \/ HlIncLoad(c)
    \/ HlIncStore(c)
    \/ HlSetHart(c)
    \/ HlDiffUnlock(c)
    \/ HlWait(c)
    \/ HlTryReturn(c)
    \/ HlLockReturn(c)
    \/ HlUnlockTestHart(c)
    \/ HlDecLoad(c)
    \/ HlDecStore(c)
    \/ HlTestLe(c)
    \/ HlClear(c)
    \/ HlScall(c)
    \/ HlUnlockReturn(c)

\* The hartlock runs with both cores executing.
SpecHartFair == Init /\ [][NextHart]_vars /\ \A c \in Harts : WF_vars(HlStep(c))

\* The same, with hartlock_unlock also called by a core that holds nothing.
NextHartForeign ==
    \/ NextHart
    \/ \E c \in Harts : HlUnlockForeign(c)

SpecHartForeign == Init /\ [][NextHartForeign]_vars

\* Both cores running the semaphore calls, from any initial count.
InitAnyCount == InitDrivers /\ InitIo /\ InitSpin /\ InitHart /\ InitLayer /\ \E n \in 0 .. MaxInitCount : InitSemWith(n)

SpecSem == InitAnyCount /\ [][NextSem]_vars

\* io_open on both cores over every pair of system and HAL
\* tables of at most MaxEntries descriptors, names repeated within a table
\* and across the two included.
MaxEntries == 2

LookupNames == {<<"/dev/uart", 1>>, <<"/dev/fft", 0>>}

Entries ==
    {[name |-> n, type |-> IF n[1] = "/dev/uart" THEN "DRIVER_UART" ELSE "DRIVER_FFT",
      excl |-> e] : n \in LookupNames, e \in BOOLEAN}

StaticTables ==
    {Append(s, Sentinel) : s \in UNION {[1 .. n -> Entries] : n \in 0 .. MaxEntries}}

InitLookup ==
    /\ drivers \in [dma : {g_dma_drivers}, system : StaticTables, hal : StaticTables]
    /\ InitIo /\ InitSpin /\ InitSem /\ InitHart /\ InitLayer

NextLookup ==
    \/ \E c \in Harts : IoOpenCall(c)
    \/ \E c \in Harts : IoOpenHal(c)
    \/ \E c \in Harts : AllocCas(c)
    \/ \E c \in Harts : FreeType(c)
    \/ \E c \in Harts : FreeClose(c)
    \/ \E c \in Harts : FreeMem(c)

SpecLookup == InitLookup /\ [][NextLookup]_vars

\* Both cores running io_alloc_handle and io_close on the handle table.
SpecTbl == Init /\ [][NextTbl]_vars

\* Core 0 opens and closes handles; core 1 makes the dispatching calls.
NextDisp ==
    \/ IoOpenCall(0)
    \/ IoOpenHal(0)
    \/ AllocCas(0)
    \/ FreeType(0)
    \/ FreeClose(0)
    \/ FreeMem(0)
    \/ IoCloseCall(0)
    \/ CloseSet(0)
    \/ IoRead(1)
    \/ IoWrite(1)
    \/ IoControl(1)
    \/ CommonEntry(1)

\* The HAL descriptor that io_open binds is of any kind.
InitDispatch ==
    /\ \E k \in DriverTypes :
         drivers = [dma |-> g_dma_drivers, system |-> g_system_drivers,
                    hal |-> << [name |-> <<"/dev/uart", 1>>, type |-> k, excl |-> FALSE],
                               Sentinel >>]
    /\ InitIo /\ InitSpin /\ InitSem /\ InitHart /\ InitLayer

SpecDisp == InitDispatch /\ [][NextDisp]_vars

\* Both cores registering drivers in the dynamic table.
SpecDyn == Init /\ [][NextDyn]_vars

\* The names under which two registrations have returned.
TwiceRegistered ==
    {n \in CustomNames :
        \E k, m \in DOMAIN installed :
            k < m /\ installed[k].desc.name = n /\ installed[m].desc.name = n}

\* io_open of a static device or of a name that was registered twice.
IoOpenRegistered(c) == IoOpenOf(c, OpenNames \cup TwiceRegistered)

\* Core 0 registers custom drivers; core 1 opens devices by name.
NextShadow ==
    \/ DynCall(0)
    \/ DynTest(0)
    \/ DynName(0)
    \/ DynType(0)
    \/ DynDriver(0)
    \/ IoOpenRegistered(1)
    \/ IoOpenHal(1)
    \/ AllocCas(1)
    \/ FreeType(1)
    \/ FreeClose(1)
    \/ FreeMem(1)

SpecShadow == Init /\ [][NextShadow]_vars

\* Both cores calling the sub-device entry points.
SpecSub == Init /\ [][NextSub]_vars

\* The runs of the PIC dispatch table.
SpecPic == Init /\ [][NextPic]_vars

\* The bring-up over static tables from which any of the devices os_entry
\* opens may be missing, with zero to MaxBootDma DMA channels.
MaxBootDma == 2

BootDevice(name, type) == [name |-> name, type |-> type, excl |-> FALSE]

BootTables ==
    [dma : {[k \in 1 .. (n + 1) |->
               IF k <= n THEN [name |-> <<"/dev/dma", k - 1>>, type |-> "DRIVER_DMA",
                               excl |-> TRUE]
               ELSE Sentinel] : n \in 0 .. MaxBootDma},
     hal : {<< BootDevice(PicName, "DRIVER_PIC"), Sentinel >>, << Sentinel >>},
     system : {Append(SelectSeq([i \in 1 .. 3 |->
                                   BootDevice(AcceleratorNames[i], "DRIVER_FFT")],
                                LAMBDA d : d.name # skip), Sentinel) :
                 skip \in {NullName} \cup {AcceleratorNames[i] : i \in 1 .. 3}}]

InitBringUp ==
    /\ drivers \in BootTables
    /\ InitIo /\ InitSpin /\ InitSem /\ InitHart /\ InitLayer

SpecBoot == InitBringUp /\ [][NextBoot]_vars

\* A task running dma_transmit and a task running a looped transfer, with
\* the driver's interrupts.
SpecXfer == Init /\ [][NextXfer]_vars

\* io_open, dma_open_free, the get_device calls and io_close, one call at a
\* time.
SpecBal == Init /\ [][NextBal]_vars


\* ------------------------------------------------------------------------
\* Properties of the handle table and the DMA channel pool.
\* ------------------------------------------------------------------------
NumDmaEntries == Cardinality(TableRefs("dma"))

\* Slots whose binding points to a DMA descriptor.
LiveDmaSlots ==
    {j \in Slots : /\ handles_[j] # NULL
                   /\ heap[handles_[j]] # NoReg
                   /\ RegAt(heap[handles_[j]]).type = "DRIVER_DMA"}

SlotsBoundTo(ref) == {j \in Slots : handles_[j] # NULL /\ heap[handles_[j]] = ref}

InIoFree(c) == pc[c] \in {"free_close", "free_mem"}

\* C1: allocations of a slot that were returned and not cleared since never
\* number more than one, and a slot is occupied exactly when one allocation
\* holds it: two live handles never have the same value.
C1_NoAliasedHandles ==
    \A j \in Slots :
        /\ liveCount[j] <= 1
        /\ (handles_[j] # NULL) <=> (liveCount[j] = 1)

\* Every slot is held by one allocation while a further allocation sweeps the
\* full table a second time, in a run that had a stale io_close.
C1_Witness ==
    /\ \A j \in Slots : liveCount[j] = 1
    /\ \E c \in Harts : pc[c] = "alloc_cas" /\ loc[c].i = 1
    /\ faults.stale = 1

\* C2: a binding is disposed of at most once: no core runs io_free on a
\* binding that is already freed or that the other core runs io_free on too.
C2_DisposedAtMostOnce ==
    \A c \in Harts :
        InIoFree(c) =>
            /\ heap[loc[c].file] # NoReg
            /\ \A d \in Harts \ {c} : InIoFree(d) => loc[d].file # loc[c].file

\* C7: the pool semaphore has the number of DMA drivers as its maximum and
\* as its count when nothing is open, and its count stays within 0 .. that
\* number.
C7_PoolBounds ==
    /\ dma_free_.max = NumDmaEntries
    /\ dma_free_.count >= 0
    /\ dma_free_.count <= NumDmaEntries
    /\ (Quiescent /\ faults.stale + faults.fail = 0
           /\ \A j \in Slots : handles_[j] = NULL)
          => dma_free_.count = NumDmaEntries

\* A DMA handle closed twice: the second io_free found the pool at its maximum.
C7_Witness == \E c \in Harts : pc[c] = "free_close" /\ loc[c].gave = "full"

\* C8: with no call in progress, pool units plus live DMA handles make up the
\* number of DMA drivers, and an open DMA driver is bound to exactly one handle.
C8_CheckedOutOnlyWhileBound ==
    Quiescent =>
        /\ dma_free_.count + Cardinality(LiveDmaSlots) = NumDmaEntries
        /\ \A ref \in TableRefs("dma") :
               used[ref] => Cardinality(SlotsBoundTo(ref)) = 1

\* C9: in a run whose mallocs all succeed, configASSERT(driver_reg) of
\* dma_open_free never fails.
C9_ScanFindsFreeChannel ==
    faults.fail = 0 => \A c \in Harts : pc[c] # "assert_dma"

\* C10: dma_open_free() followed at once by dma_close() of its result, run
\* from a quiescent state with the other core idle, restores the pool count,
\* the drivers' open state and the handle table.
C10_RoundTrip ==
    rt.st = "done" =>
        /\ dma_free_.count = rt.count
        /\ used = rt.used
        /\ handles_ = rt.handles

\* C5: at most one core is between acquiring a spinlock and unlocking it,
\* and a core never acquires a spinlock it already holds: spinlock_lock on a
\* held lock does not return.
C5_SpinlockExclusive ==
    \A l \in Locks :
        /\ held[0][l] + held[1][l] <= 1
        /\ \A c \in Harts : held[c][l] <= 1

\* One core holds a lock and spins in spinlock_lock on that same lock, while
\* the other core spins on it too.
C5_Witness ==
    \E l \in Locks :
        /\ held[0][l] = 1
        /\ \A c \in Harts : spc[c] = "sl_read" /\ sloc[c] = l

\* What a call that has updated count and not yet returned has added to it.
SemPending(c) ==
    IF mpc[c] = "sig_unlock" THEN mloc[c].i
    ELSE IF mpc[c] \in {"wait_dec", "wait_unlock"} THEN 0 - mloc[c].i
    ELSE 0

\* C6: count is never negative; a wait subtracts its amount only in a state
\* where count is at least that amount, and no other signal or wait changes
\* count between its test and its subtraction; count is the initial value
\* plus returned signals minus returned waits, plus the updates of the calls
\* that have not returned yet.
C6_SemaphoreCount ==
    /\ sem.count >= 0
    /\ \A c \in Harts :
           /\ mpc[c] \in {"wait_load", "wait_store"} => sem.count >= mloc[c].i
           /\ mpc[c] = "wait_store" => mloc[c].tmp = sem.count
    /\ sem.count = net + SemPending(0) + SemPending(1)

\* A wait(2) has brought count to 0 and is about to return, while the other
\* core waits as well.
C6_Witness ==
    \E c \in Harts :
        /\ mpc[c] = "wait_unlock" /\ mloc[c].i = 2 /\ sem.count = 0
        /\ mpc[1 - c] = "wait_lock" /\ sem.waiting = 1

HlQuiescent == \A c \in Harts : hpc[c] = "idle"

\* C3: the two cores never both hold the hartlock: no core's hartlock_lock
\* or hartlock_trylock succeeds while the other core has acquisitions it has
\* not released.
C3_HartlockExclusive == ~(holds[0] > 0 /\ holds[1] > 0)

\* C4: with no call in progress, count is the owner's acquisitions minus its
\* releases and hart names that owner, and the lock is free (count = 0,
\* hart unset) exactly when every acquisition has been released.
C4_CountIsOwnersDepth ==
    HlQuiescent =>
        /\ \A c \in Harts : holds[c] > 0 => hl.hart = c /\ hl.count = holds[c]
        /\ (\A c \in Harts : holds[c] = 0) => hl.hart = NoHart /\ hl.count = 0

\* ------------------------------------------------------------------------
\* PIC dispatch.
\* ------------------------------------------------------------------------
\* The step is one of core c's kernel_iface_pic_on_irq.
PicIrqStep(c) == ppc'[c] # ppc[c] /\ (ploc[c].op = "irq" \/ ploc'[c].op = "irq")

\* What an interrupt of a line makes of the registration the line settled on.
PicDispatchOf(s) == IF s[1] # NULL THEN << s >> ELSE << >>

\* C11: an interrupt of line L that runs with no registration of L in
\* progress calls the handler of the last completed pic_set_irq_handler(L, h,
\* c) exactly once with argument c and calls no other handler; on a line
\* whose entry is empty (never registered, or registered as NULL) it calls
\* nothing; and no step of kernel_iface_pic_on_irq changes the table.
C11_PicDispatch ==
    /\ [](\A c \in Harts :
            (ppc[c] = "irq_ret" /\ ploc[c].quiet)
                => ploc[c].calls = PicDispatchOf(settled[ploc[c].irq]))
    /\ [][\A c \in Harts :
            PicIrqStep(c) => UNCHANGED << pic_callbacks, callback_userdata >>]_vars

\* An interrupt returned after calling the registered handler of its line
\* while the other line holds another registration.
C11_Witness ==
    \E c \in Harts :
        /\ ppc[c] = "irq_ret"
        /\ ploc[c].quiet
        /\ Len(ploc[c].calls) = 1
        /\ \E l \in Irqs \ {ploc[c].irq} :
               /\ settled[l] # Unsettled
               /\ settled[l][1] # NULL
               /\ settled[l] # settled[ploc[c].irq]

\* C12: whatever the interleaving of kernel_iface_pic_on_irq(L) with
\* pic_set_irq_handler(L, ...) calls, every handler invocation gets a
\* context that some pic_set_irq_handler(L, ...) call registered together
\* with that handler.
C12_HandlerGetsItsContext ==
    \A c \in Harts :
        \A k \in 1 .. Len(ploc[c].calls) :
            ploc[c].calls[k] \in regd[ploc[c].irq]

\* ------------------------------------------------------------------------
\* Name lookup.
\* ------------------------------------------------------------------------
\* The indices of the entries of table t that carry the name.
Named(t, name) == {k \in DOMAIN Table(t) : Table(t)[k].name = name}

\* The outcomes of the open checks in a list that succeeded.
Opened(checks) == {k \in DOMAIN checks : checks[k][2]}

\* The step is the return of a handle from core c's io_open.
IoOpenReturns(c) ==
    pc[c] = "alloc_cas" /\ loc[c].op = "io_open" /\ pc'[c] = "idle"

\* C13: an io_open that returns a handle ran its open checks on the system
\* table before any on the HAL table, ran none on the HAL table when the
\* handle is bound to a system descriptor, bound the handle to the
\* descriptor whose check succeeded, and opened exactly one driver.
C13_SystemTableFirst ==
    [][\A c \in Harts :
        IoOpenReturns(c) =>
            LET ch == loc[c].checks
                reg == heap[loc[c].file]
            IN /\ \A k \in DOMAIN ch : \A m \in DOMAIN ch :
                      (ch[k][1][1] = "hal" /\ ch[m][1][1] = "system") => m < k
               /\ reg[1] = "system" => \A k \in DOMAIN ch : ch[k][1][1] = "system"
               /\ \E k \in Opened(ch) : ch[k][1] = reg
               /\ Cardinality(Opened(ch)) = 1]_vars

\* C14: find_free_driver(table, name) invokes the open check on the first
\* entry of the table with that name and on no other, returns that entry if
\* and only if the check succeeds and NULL otherwise, whatever later entries
\* carry the name; with no entry of the name it returns NULL and invokes no
\* check.
C14_FirstNamedEntryOnly ==
    \A t \in {"system", "hal"} : \A name \in LookupNames :
        LET r == find_free_driver(t, name, used)
        IN IF Named(t, name) = {}
           THEN r.reg = NoReg /\ r.checks = << >> /\ r.used = used
           ELSE LET k == CHOOSE k \in Named(t, name) : \A m \in Named(t, name) : k <= m
                    o == driver_open(used, <<t, k>>)
                IN /\ r.checks = << << <<t, k>>, o.ok >> >>
                   /\ r.reg = IF o.ok THEN <<t, k>> ELSE NoReg
                   /\ r.used = o.used

\* An io_open whose system lookup found the first entry of the name busy
\* while a later entry of the same name was free, and went on to the HAL table.
C14_Witness ==
    \E c \in Harts :
        /\ pc[c] = "open_hal"
        /\ loc[c].checks = << << <<"system", 1>>, FALSE >> >>
        /\ drivers.system[2].name = loc[c].name
        /\ ~used[<<"system", 2>>]
        /\ drivers.system[2].excl

\* ------------------------------------------------------------------------
\* Handle values.
\* ------------------------------------------------------------------------
\* The step is the return of core c's io_alloc_handle.
AllocReturned(c) ==
    tret'.tick # tret.tick /\ tret'.c = c /\ tret'.op = "alloc"

\* The step is core c's io_close(0).
CloseOfZero(c) ==
    tret'.tick # tret.tick /\ tret'.c = c /\ tret'.op = "close" /\ tret'.val = 0

\* C16: a non-zero value returned by io_alloc_handle is HANDLE_OFFSET plus
\* the index of the one slot the call moved from empty to its file, and lies
\* in HandleValues; a call returns 0 only for a NULL file or after its last
\* compare-and-swap failed, and changes no slot; io_close(0) changes neither
\* the handle table nor the set of open files.
C16_HandleIsSlotPlusOffset ==
    /\ [][\A c \in Harts :
            AllocReturned(c) =>
                IF tret'.val # 0
                THEN /\ tret'.val \in HandleValues
                     /\ htbl[tret'.val - HANDLE_OFFSET] = NULL
                     /\ htbl' = [htbl EXCEPT ![tret'.val - HANDLE_OFFSET] = tloc[c].file]
                ELSE htbl' = htbl /\ tpc[c] \in {"idle", "free"}]_vars
    /\ [][\A c \in Harts : CloseOfZero(c) => UNCHANGED << htbl, topen >>]_vars

\* An io_alloc_handle that ran while the other core was in a call returned
\* the handle of the last slot.
C16_Witness ==
    /\ tret.op = "alloc"
    /\ tret.val = HANDLE_OFFSET + MAX_HANDLES - 1
    /\ ~tret.alone
    /\ htbl[MAX_HANDLES - 1] # NULL

\* C17: when io_close(h) returns, slot h - HANDLE_OFFSET is empty; an
\* io_alloc_handle on a file that runs with no step of the other core
\* between its call and its return gives the lowest-indexed empty slot plus
\* HANDLE_OFFSET, and so succeeds whenever a slot is empty.
C17_ReleasedSlotReusable ==
    /\ [][\A c \in Harts :
            (tpc[c] = "set" /\ tpc'[c] = "idle")
                => htbl'[tloc[c].h - HANDLE_OFFSET] = NULL]_vars
    /\ [][\A c \in Harts :
            (AllocReturned(c) /\ tpc[c] \in {"cas", "free"} /\ tloc[c].alone) =>
                LET empty == {j \in Slots : htbl[j] = NULL}
                IN tret'.val =
                       IF empty = {} THEN 0
                       ELSE handle_of_slot(CHOOSE j \in empty : \A k \in empty : j <= k)]_vars

\* The io_close of the handle of the last slot returned, every other slot
\* was occupied, and the io_alloc_handle that ran next, alone, returned that
\* same handle.
C17_Witness ==
    /\ tret.op = "alloc"
    /\ tret.alone
    /\ tret.val = HANDLE_OFFSET + MAX_HANDLES - 1
    /\ tret.prev = [op |-> "close", val |-> tret.val]
    /\ \A j \in Slots : htbl[j] # NULL

\* ------------------------------------------------------------------------
\* Handle-table exhaustion.
\* ------------------------------------------------------------------------
\* Core c is in the io_free that io_alloc_handle runs after both sweeps failed.
Exhausted(c) ==
    pc[c] \in {"free_type", "free_close", "free_mem"} /\ loc[c].op # "io_close"

\* C18 as stated: a core whose io_alloc_handle claimed no slot in its two
\* sweeps does not return to its caller.
C18_ExhaustionHalts ==
    [][\A c \in Harts : Exhausted(c) => pc'[c] # "idle"]_vars

\* C18, amended: io_alloc_handle gives up only after the compare-and-swap on
\* the last slot failed in the second sweep; it then releases the file with
\* io_free and returns 0 to the caller of io_open or dma_open_free, leaving
\* the handle table as it is; the core does not halt.
C18_ExhaustionReturnsZero ==
    /\ [][\A c \in Harts :
            (pc[c] = "alloc_cas" /\ Exhausted(c)') =>
                /\ loc[c].i = ALLOC_SWEEPS - 1 /\ loc[c].j = MAX_HANDLES - 1
                /\ handles_[loc[c].j] # NULL]_vars
    /\ [][\A c \in Harts :
            (Exhausted(c) /\ pc'[c] # pc[c]) =>
                /\ pc'[c] \in {"free_close", "free_mem", "idle"}
                /\ handles_' = handles_
                /\ pc'[c] = "idle" => heap'[loc[c].file] = NoReg]_vars

\* A core has found every slot occupied in both sweeps and is about to
\* return 0 from io_open or dma_open_free.
C18_Witness ==
    \E c \in Harts :
        /\ pc[c] = "free_mem"
        /\ loc[c].op \in {"io_open", "dma_open_free"}
        /\ \A j \in Slots : handles_[j] # NULL

\* ------------------------------------------------------------------------
\* Dispatch on the descriptor kind.
\* ------------------------------------------------------------------------
\* The driver function a generic call forwards to.
FunctionOf(op) ==
    CASE op = "io_read" -> "read"
      [] op = "io_write" -> "write"
      [] op = "io_control" -> "io_control"

\* The generic call forwards for the kind.
Forwards(op, kind) ==
    IF op = "io_control" THEN kind = "DRIVER_CUSTOM"
    ELSE kind \in {"DRIVER_UART", "DRIVER_I2C_DEVICE", "DRIVER_SPI_DEVICE"}

\* C15: on a live handle, io_read and io_write call the read / write of the
\* driver of the handle's descriptor exactly once and return its result when
\* the descriptor kind is UART, I2C_DEVICE or SPI_DEVICE, and io_control
\* does so with io_control when the kind is CUSTOM; for every other kind the
\* call returns -1 and calls no driver function; no such call changes the
\* handle table.
C15_GenericDispatch ==
    /\ []((disp.live /\ disp.op \in {"io_read", "io_write", "io_control"}) =>
            /\ disp.st = "returned"
            /\ IF Forwards(disp.op, RegAt(disp.reg).type)
               THEN /\ disp.calls = << << disp.reg, FunctionOf(disp.op) >> >>
                    /\ disp.ret = disp.res
               ELSE /\ disp.calls = << >>
                    /\ disp.ret = 0 - 1)
    /\ [][disp' # disp => handles_' = handles_]_vars

\* An io_read on a live handle of an SPI device returned the driver's result.
C15_Witness ==
    /\ disp.live
    /\ disp.op = "io_read"
    /\ RegAt(disp.reg).type = "DRIVER_SPI_DEVICE"
    /\ disp.calls # << >>
    /\ disp.ret = MaxResult

\* C19: io_read, io_write, io_control and the typed entry points, given a
\* handle outside the range or one whose slot is empty, stop on an
\* assertion or a fault, call no driver function and return nothing.
C19_BadHandleHalts ==
    (disp.op # "none" /\ ~disp.live) =>
        disp.st \in {"fault", "assert"} /\ disp.calls = << >>

\* ------------------------------------------------------------------------
\* The dynamic driver table.
\* ------------------------------------------------------------------------
\* C20: the k-th registration to return, for k up to MAX_CUSTOM_DRIVERS,
\* filled slot k, and the entries of the registrations that returned are as
\* they were registered; a registration reaches the assertion "Max custom
\* drivers exceeded" only after MAX_CUSTOM_DRIVERS registrations returned.
C20_DynamicTableFillsInOrder ==
    /\ \A k \in DOMAIN installed :
           /\ installed[k].slot = k
           /\ g_custom_drivers[k] = installed[k].desc
    /\ \A c \in Harts :
           cpc[c] = "assert_custom" => Len(installed) = MAX_CUSTOM_DRIVERS

\* ------------------------------------------------------------------------
\* io_open when no table yields a binding.
\* ------------------------------------------------------------------------
\* Core c is about to look the name up in g_hal_drivers after
\* g_system_drivers gave nothing, and neither lookup opens a driver: in each
\* table the name is absent or the open check of its first entry fails.
NoBinding(c) ==
    /\ pc[c] = "open_hal"
    /\ \A i \in DOMAIN loc[c].checks : ~loc[c].checks[i][2]
    /\ LET k == FirstNamed(Table("hal"), loc[c].name, 1)
       IN k = 0 \/ ~driver_open(used, <<"hal", k>>).ok

\* C21: io_open of a name that is absent from g_system_drivers and
\* g_hal_drivers, or whose open check fails, reaches configASSERT(file) with
\* a NULL file; the call claims no slot of handles_ and opens no driver.
C21_NoBindingAsserts ==
    [][\A c \in Harts :
          (NoBinding(c) /\ pc'[c] # pc[c]) =>
              /\ pc'[c] = "assert_open"
              /\ handles_' = handles_
              /\ used' = used
              /\ heap' = heap]_vars

\* io_open stopped on its assertion: the name is in no entry of
\* g_system_drivers, and the open check of its entry of g_hal_drivers failed.
C21_Witness ==
    \E c \in Harts :
        /\ pc[c] = "assert_open"
        /\ Len(loc[c].checks) = 1
        /\ loc[c].checks[1][1][1] = "hal"
        /\ ~loc[c].checks[1][2]

\* ------------------------------------------------------------------------
\* Bring-up order and dual-core start.
\* ------------------------------------------------------------------------
BootDmaCount == Cardinality(TableRefs("dma"))

\* C22: os_entry completes its steps in the order HAL drivers installed,
\* "/dev/pic0" opened (the first io_open, with a non-zero handle), DMA
\* drivers installed, pool semaphore created with the number of DMA drivers,
\* system drivers installed, "/dev/fft0", "/dev/aes0", "/dev/sha256" opened;
\* while the pool semaphore does not exist no task can run: no scheduler has
\* started and core 1 is asleep.
C22_BringUpOrder ==
    LET claimed == << <<"install", "hal", NullName>>,
                      <<"io_open", "none", <<"/dev/pic", 0>> >>,
                      <<"assert_pic_file", "none", NullName>>,
                      <<"install", "dma", NullName>>,
                      <<"init_dma_system", "none", NullName>>,
                      <<"install", "system", NullName>>,
                      <<"io_open", "none", <<"/dev/fft", 0>> >>,
                      <<"io_open", "none", <<"/dev/aes", 0>> >>,
                      <<"io_open", "none", <<"/dev/sha", 256>> >> >>
    IN /\ \A i \in DOMAIN boot.log :
            i <= Len(claimed) =>
                <<boot.log[i].op, boot.log[i].t, boot.log[i].name>> = claimed[i]
       /\ boot.opens # << >> => boot.opens[1] = <<"/dev/pic", 0>>
       /\ Len(boot.log) >= 3 =>
            /\ boot.files[1][1] = <<"/dev/pic", 0>>
            /\ boot.files[1][2] # 0
       /\ Len(boot.log) >= 5 <=> boot.dma_free_ # NoSem
       /\ boot.dma_free_ # NoSem =>
            boot.dma_free_ = [count |-> BootDmaCount, max |-> BootDmaCount]
       /\ boot.dma_free_ = NoSem =>
            /\ \A c \in Harts : boot.sched[c] = "off"
            /\ boot.core1 = "asleep"
            /\ boot.task = "none"

\* The nine steps are complete, with MaxBootDma DMA channels in the pool and
\* four handles stored.
C22_Witness ==
    /\ Len(boot.log) >= 9
    /\ boot.dma_free_.count = MaxBootDma
    /\ Len(boot.files) = 4
    /\ \A i \in 1 .. 4 : boot.files[i][2] # 0

ReturnedSlots == {installed[k].slot : k \in DOMAIN installed}

\* C26: the entry of g_custom_drivers that a registration returned keeps its
\* name, kind and driver in every later step, and no two registrations
\* return the same entry.
C26_AppendOnly ==
    /\ [](\A k, m \in DOMAIN installed :
              k # m => installed[k].slot # installed[m].slot)
    /\ [][\A i \in ReturnedSlots :
              g_custom_drivers'[i] = g_custom_drivers[i]]_vars

\* C24: io_open of a name under which two custom drivers were registered
\* yields a binding, that of the first-registered descriptor: it does not
\* end on configASSERT(file) for want of one.
C24_FirstRegisteredFound ==
    \A c \in Harts : \A n \in TwiceRegistered :
        ~(pc[c] = "assert_open" /\ loc[c].name = n)

\* C25: every get_device call that has returned registered an entry of its
\* device kind under its name, invoked the open of the device driver, and
\* returned a non-zero handle that was not live before and is bound to the
\* entry the call registered.
C25_GetDeviceOpensFresh ==
    sub.ret.op # "none" =>
        /\ \E k \in DOMAIN installed :
              /\ installed[k].slot = sub.ret.slot
              /\ installed[k].desc.type \in
                     {"DRIVER_I2C_DEVICE", "DRIVER_SPI_DEVICE", "DRIVER_SCCB_DEVICE"}
        /\ \E i \in DOMAIN sub.ret.calls : sub.ret.calls[i] = "open"
        /\ sub.ret.h # 0
        /\ sub.ret.fresh
        /\ sub.handles[sub.ret.h - HANDLE_OFFSET] = sub.ret.slot

\* ------------------------------------------------------------------------
\* The state of the hartlock.
\* ------------------------------------------------------------------------
\* C27: whenever the spinlock of the hartlock is not held, count is not
\* negative, a count above 0 comes with the id of a core in hart, and a
\* count of 0 comes with hart = -1.
C27_HartlockStateInvariant ==
    hl.lock = SPINLOCK_INIT =>
        /\ hl.count >= 0
        /\ hl.count > 0 => hl.hart \in Harts
        /\ hl.count = 0 => hl.hart = NoHart

\* Core c takes a step of its own that leaves count and hart as they were.
HlOwnStepKeeps(c, from, to) ==
    (hpc[c] = from /\ hpc'[c] # hpc[c]) =>
        /\ hpc'[c] = to
        /\ hl'.count = hl.count
        /\ hl'.hart = hl.hart
        /\ holds' = holds

\* C28: a hartlock_unlock whose test finds another core, or no core, in hart
\* goes through the first spinlock_unlock, the scall and the last
\* spinlock_unlock, and none of its steps changes count, hart or the
\* acquisitions of the other core.
C28_ForeignUnlockKeepsState ==
    [][\A c \in Harts :
          /\ (hpc[c] = "u_test_hart" /\ hl.hart # c) =>
                 HlOwnStepKeeps(c, "u_test_hart", "u_diff_unlock")
          /\ HlOwnStepKeeps(c, "u_diff_unlock", "u_scall")
          /\ HlOwnStepKeeps(c, "u_scall", "u_unlock")
          /\ HlOwnStepKeeps(c, "u_unlock", "idle")
          /\ HlOwnStepKeeps(c, "u_lock", "u_test_hart")]_vars

\* A core that has acquired nothing is at the scall of hartlock_unlock while
\* the other core owns the lock.
C28_Witness ==
    \E c \in Harts :
        /\ hpc[c] = "u_scall"
        /\ holds[c] = 0
        /\ hl.hart = 1 - c
        /\ hl.count > 0
        /\ holds[1 - c] > 0

\* What happens to the event of one dma_transmit call, in order.
TxOrder == << "create", "async", "signal", "take", "delete" >>

TxInOrder(h) == Len(h) <= Len(TxOrder) /\ \A i \in 1 .. Len(h) : h[i] = TxOrder[i]

\* The events the looped transfer has alive.
LoopEvents ==
    IF xfer.loop.pc \in {"running", "completed", "assert_entry"} THEN {xfer.loop.event}
    ELSE {}

\* C29: dma_transmit is synchronous. The event it creates was not alive
\* before and is no event of another transfer; it issues transmit_async on
\* the driver exactly once, with that event; the event is signalled before
\* the call takes it, taken before the call deletes it, and the call has
\* returned exactly when all of these have happened in this order, so that
\* a call whose event is never signalled never returns.
C29_TransmitSynchronous ==
    LET t == xfer.tx
    IN t.pc # "idle" =>
        /\ t.fresh
        /\ t.pc # "returned" => t.event \notin LoopEvents
        /\ TxInOrder(t.hist)
        /\ t.calls = IF Len(t.hist) >= 2 THEN << << "transmit_async", t.event >> >>
                     ELSE << >>
        /\ t.pc = "returned" <=> t.hist = TxOrder
        /\ t.pc = "delete" <=> Len(t.hist) = 4
        /\ t.pc = "take" <=> Len(t.hist) \in {2, 3}

\* The second dma_transmit call has returned while the looped transfer on
\* the other channel runs with its own event.
C29_Witness ==
    /\ xfer.tx.pc = "returned"
    /\ xfer.tx.n = MaxTransfers
    /\ xfer.tx.hist = TxOrder
    /\ xfer.loop.pc = "running"

\* C30: a looped transfer started with dma_loop_async whose stop flag is set
\* before the second stage begins performs one stage only: the stage handler
\* runs once, no second stage begins, and the completion event is signalled
\* once, after the handler.
C30_StopBeforeSecondStage ==
    LET l == xfer.loop
    IN xfer.stopAt \in {0, 1} =>
        /\ l.begun <= 1
        /\ l.handled <= 1
        /\ l.signals = l.handled
        /\ l.pc \in {"completed", "closed"} => l.handled = 1 /\ l.signals = 1
        /\ l.pc = "running" => l.handled = 0

\* A loop over the largest number of buffers, stopped during its first
\* stage, has completed.
C30_Witness ==
    /\ xfer.stopAt = 1
    /\ xfer.loop.stages = MaxStages
    /\ xfer.loop.pc = "completed"
    /\ xfer.loop.handled = 1
    /\ xfer.loop.signals = 1

\* ------------------------------------------------------------------------
\* Termination of io_alloc_handle and progress of the DMA pool.
\* ------------------------------------------------------------------------
\* The compare-and-swap attempts core c has made in its io_alloc_handle.
Attempts(c) == loc[c].i * MAX_HANDLES + loc[c].j

\* C31: io_alloc_handle makes at most ALLOC_SWEEPS * MAX_HANDLES
\* compare-and-swap attempts, whatever the other core does, and a core in it
\* always gets back to its caller. An attempt that fails writes no slot; the
\* call gives up only after the last attempt failed, and then signals the
\* pool when the file is bound to a DMA driver, closes the driver once,
\* frees the file and returns 0, with no slot of the table written.
C31_AllocTerminates ==
    /\ [](\A c \in Harts :
            pc[c] = "alloc_cas" =>
                loc[c].j \in Slots /\ Attempts(c) < ALLOC_SWEEPS * MAX_HANDLES)
    /\ [][\A c \in Harts :
            (pc[c] = "alloc_cas" /\ (pc'[c] # pc[c] \/ loc'[c] # loc[c])) =>
                CASE pc'[c] = "alloc_cas" ->
                         /\ Attempts(c)' = Attempts(c) + 1
                         /\ handles_' = handles_
                  [] pc'[c] = "free_type" ->
                         /\ Attempts(c) = ALLOC_SWEEPS * MAX_HANDLES - 1
                         /\ handles_' = handles_
                  [] OTHER ->
                         /\ pc'[c] = "idle"
                         /\ handles_[loc[c].j] = NULL
                         /\ handles_' = [handles_ EXCEPT ![loc[c].j] = loc[c].file]]_vars
    /\ [][\A c \in Harts :
            (Exhausted(c) /\ pc'[c] # pc[c]) =>
                LET file == loc[c].file
                    reg == heap[file]
                IN /\ reg # NoReg
                   /\ handles_' = handles_
                   /\ pc[c] = "free_type" =>
                         /\ pc'[c] = "free_close"
                         /\ dma_free_'.count = dma_free_.count +
                                (IF RegAt(reg).type = "DRIVER_DMA" THEN 1 ELSE 0)
                         /\ UNCHANGED << used, heap >>
                   /\ pc[c] = "free_close" =>
                         /\ pc'[c] = "free_mem"
                         /\ used' = [used EXCEPT ![reg] = FALSE]
                         /\ UNCHANGED << dma_free_, heap >>
                   /\ pc[c] = "free_mem" =>
                         /\ pc'[c] = "idle"
                         /\ heap' = [heap EXCEPT ![file] = NoReg]
                         /\ UNCHANGED << dma_free_, used >>
                         /\ (rt.st = "open" /\ rt.c = c) =>
                                rt'.st = "opened" /\ rt'.h = 0]_vars
    /\ \A c \in Harts : (pc[c] = "alloc_cas") ~> (pc[c] = "idle")

\* A dma_open_free has given up in io_alloc_handle, signalled the pool and
\* closed its channel, while the other core is in a call of its own.
C31_Witness ==
    \E c \in Harts : \E d \in Harts \ {c} :
        /\ pc[c] = "free_mem"
        /\ loc[c].op = "dma_open_free"
        /\ loc[c].gave = "pass"
        /\ ~used[heap[loc[c].file]]
        /\ pc[d] # "idle"

\* Core c is blocked in the xSemaphoreTake of dma_open_free: no pool unit is
\* available.
BlockedInDmaOpen(c) == pc[c] = "dma_take" /\ dma_free_.count = 0

\* Core d has started the io_close of a live DMA handle.
ClosingDma(d) ==
    /\ pc[d] = "free_type"
    /\ loc[d].op = "io_close"
    /\ heap[loc[d].file] # NoReg
    /\ RegAt(heap[loc[d].file]).type = "DRIVER_DMA"

\* The last call of core c has returned and a DMA handle is live.
HasDmaHandle(c) == pc[c] = "idle" /\ LiveDmaSlots # {}

TableFull == \A j \in Slots : handles_[j] # NULL

\* Core d is in a dma_open_free of its own, competing for the pool unit.
Competes(d) == loc[d].op = "dma_open_free"

\* C32: with both cores executing, a dma_open_free that is blocked with
\* every channel checked out returns a handle once the other core closes a
\* DMA handle, unless the handle table is full, a malloc fails or the other
\* core takes the unit for a dma_open_free of its own; and the call leaves
\* its xSemaphoreTake only by taking a pool unit.
C32_BlockedOpenReturns ==
    /\ [][\A c \in Harts :
            (pc[c] = "dma_take" /\ pc'[c] # pc[c]) =>
                dma_free_.count > 0 /\ dma_free_'.count = dma_free_.count - 1]_vars
    /\ \A c \in Harts : \A d \in Harts \ {c} :
          (BlockedInDmaOpen(c) /\ ClosingDma(d))
              ~> (HasDmaHandle(c) \/ TableFull \/ faults.fail > 0 \/ Competes(d))

\* ------------------------------------------------------------------------
\* Progress of hartlock_lock.
\* ------------------------------------------------------------------------
\* Core c is in the different-core branch of hartlock_lock: in the wait loop
\* or in the hartlock_trylock the loop calls.
WaitingInLock(c) ==
    \/ hpc[c] = "l_wait"
    \/ hloc[c].from = "lock" /\ hpc[c] \notin {"idle", "l_unlock"}

\* Core c is in hartlock_lock or hartlock_trylock.
Acquiring(c) ==
    hpc[c] \in {"l_lock", "l_test_count", "l_test_hart", "l_first_load", "l_first_store",
                "l_same_load", "l_same_store", "l_set_hart", "l_diff_unlock", "l_wait",
                "l_unlock", "t_lock", "t_test_count", "t_test_hart", "t_first_load",
                "t_first_store", "t_same_load", "t_same_store", "t_set_hart", "t_unlock"}

\* Core c has given up everything it acquired and the count is back at 0.
ReleasedFully(c) == holds[c] = 0 /\ hl.count = 0 /\ ~Acquiring(c)

\* Core c owns the hartlock once and is back in its caller.
OwnsOnce(c) == hpc[c] = "idle" /\ holds[c] > 0 /\ hl.count = 1 /\ hl.hart = c

\* C33: with both cores executing, when core b waits in hartlock_lock and
\* core a has released the lock fully, b's call returns with count = 1 and
\* hart = b, unless a starts to acquire the lock again.
C33_WaiterGetsLock ==
    \A a \in Harts : \A b \in Harts \ {a} :
        (WaitingInLock(b) /\ ReleasedFully(a)) ~> (OwnsOnce(b) \/ Acquiring(a))

\* ------------------------------------------------------------------------
\* The spinlock inside the hartlock.
\* ------------------------------------------------------------------------
\* The positions between a spinlock_lock of the hartlock calls and the
\* first spinlock_unlock after it.
InsideSpinlock ==
    {"l_test_count", "l_test_hart", "l_first_load", "l_first_store", "l_same_load",
     "l_same_store", "l_set_hart", "t_test_count", "t_test_hart", "t_first_load",
     "t_first_store", "t_same_load", "t_same_store", "t_set_hart", "u_test_hart",
     "u_dec_load", "u_dec_store", "u_test_le", "u_clr_hart", "u_clr_count"}

\* The positions whose next instruction is a spinlock_unlock.
AtSpinUnlock == {"l_diff_unlock", "u_diff_unlock", "t_unlock", "l_unlock", "u_unlock"}

\* C34: a core comes to a spinlock_unlock of the hartlock only from inside
\* the section it opened with spinlock_lock, so that it releases a spinlock
\* it holds; and while a core is inside that section the spinlock stays
\* taken and the other core is not inside it.
C34_UnlockOnlyByHolder ==
    /\ [][\A c \in Harts :
            (hpc'[c] # hpc[c] /\ hpc'[c] \in AtSpinUnlock) => hpc[c] \in InsideSpinlock]_vars
    /\ [](\A c \in Harts : hpc[c] \in InsideSpinlock => hl.lock # 0)
    /\ [](\A c \in Harts : \A d \in Harts \ {c} :
            ~(hpc[c] \in InsideSpinlock /\ hpc[d] \in InsideSpinlock))

\* ------------------------------------------------------------------------
\* Balance of driver opens and closes.
\* ------------------------------------------------------------------------
\* The live handles whose file is bound to descriptor d.
BoundTo(d) == {j \in Slots : bal.table[j] = d}

\* C35: between calls, in a run that no assertion has stopped, for every
\* descriptor the open checks that succeeded less the close calls equal the
\* number of live handles bound to it, and the driver was never closed more
\* often than it was opened.
C35_OpenCloseBalance ==
    ~bal.halted =>
        \A d \in BalDescs :
            /\ bal.closes[d] <= bal.opens[d]
            /\ bal.opens[d] - bal.closes[d] = Cardinality(BoundTo(d))


\* An io_close call returning or halting.
CloseStep == bal'.calls = bal.calls + 1 /\ bal'.op = "io_close"

\* C36: io_close of a handle of the range whose slot is empty returns 0,
\* having called no driver's close, given no unit to the DMA pool and left
\* every slot as it was; and every io_close that returns, returns 0.
C36_CloseOfEmptySlot ==
    [][CloseStep =>
          /\ ~bal'.halted => bal'.ret = 0
          /\ (bal'.arg \in HandleValues /\ bal.table[bal'.arg - HANDLE_OFFSET] = NoReg) =>
                /\ ~bal'.halted
                /\ bal'.ret = 0
                /\ bal'.closes = bal.closes
                /\ bal'.opens = bal.opens
                /\ bal'.used = bal.used
                /\ bal'.pool = bal.pool
                /\ bal'.table = bal.table]_vars

\* io_close of a handle of the range has returned 0 in a run where no
\* driver was ever closed, so its slot was empty, with a handle open in
\* another slot.
C36_Witness ==
    /\ bal.op = "io_close" /\ bal.arg \in HandleValues
    /\ ~bal.halted /\ bal.ret = 0
    /\ \A d \in BalDescs : bal.closes[d] = 0
    /\ \E j \in Slots : bal.table[j] # NoReg


\* A dma_open_free call returning or halting.
DmaOpenStep == bal'.calls = bal.calls + 1 /\ bal'.op = "dma_open_free"

BalTableFull == \A j \in Slots : bal.table[j] # NoReg

\* C37: a dma_open_free call that returns, made with every slot of the
\* handle table occupied, returns 0 and leaves the count of the DMA pool and
\* the open state of every DMA driver as they were before the call.
C37_FullTableRestores ==
    [][(DmaOpenStep /\ BalTableFull /\ ~bal'.halted) =>
          /\ bal'.ret = 0
          /\ bal'.pool = bal.pool
          /\ \A k \in 1 .. NumDmaDrivers :
                bal'.used[<<"dma", k>>] = bal.used[<<"dma", k>>]
          /\ bal'.table = bal.table]_vars


\* Core c is in hartlock_trylock with the spinlock taken.
TryInside == {"t_test_count", "t_test_hart", "t_first_load", "t_first_store",
              "t_set_hart", "t_same_load", "t_same_store", "t_unlock"}

\* Core c takes a step of its own from one place of hartlock_trylock.
TryStep(c, from) == hpc[c] = from /\ hpc'[c] # hpc[c]

\* C38: hartlock_trylock, once it has the spinlock, goes by the tests of
\* count and hart alone: with count = 0 it increments count, sets hart to
\* the caller and returns 0; with hart = caller it increments count and
\* returns 0; otherwise it sets res = -1 and returns it with count and hart
\* as they were. No step of it waits, so with each core taking its own
\* steps the call always comes to its return (in the runs whose count stays
\* within the values counted).
C38_TrylockNeverWaits ==
    /\ [][\A c \in Harts :
            /\ TryStep(c, "t_test_count") =>
                  /\ hpc'[c] = (IF hl.count = 0 THEN "t_first_load" ELSE "t_test_hart")
                  /\ hl'.count = hl.count /\ hl'.hart = hl.hart
            /\ TryStep(c, "t_test_hart") =>
                  /\ hpc'[c] = (IF hl.hart = c THEN "t_same_load" ELSE "t_unlock")
                  /\ hl.hart # c => hloc'[c].res = 0 - 1
                  /\ hl'.count = hl.count /\ hl'.hart = hl.hart
            /\ TryStep(c, "t_first_load") =>
                  hpc'[c] = "t_first_store" /\ hl'.count = hl.count /\ hl'.hart = hl.hart
            /\ TryStep(c, "t_first_store") =>
                  hpc'[c] = "t_set_hart" /\ hl'.count = hl.count + 1
            /\ TryStep(c, "t_set_hart") =>
                  hpc'[c] = "t_unlock" /\ hl'.hart = c /\ hloc'[c].res = 0
                  /\ hl'.count = hl.count
            /\ TryStep(c, "t_same_load") =>
                  hpc'[c] = "t_same_store" /\ hl'.count = hl.count /\ hl'.hart = hl.hart
            /\ TryStep(c, "t_same_store") =>
                  /\ hpc'[c] = "t_unlock" /\ hloc'[c].res = 0
                  /\ hl'.count = hl.count + 1 /\ hl'.hart = hl.hart
            /\ TryStep(c, "t_unlock") =>
                  /\ hl'.count = hl.count /\ hl'.hart = hl.hart
                  /\ hloc[c].from = "top" =>
                        /\ hpc'[c] = "idle"
                        /\ holds'[c] = (IF hloc[c].res = 0 THEN holds[c] + 1 ELSE holds[c])]_vars
    /\ \A c \in Harts :
          (hpc[c] \in TryInside) ~> (hpc[c] \notin TryInside \/ hl.count \notin CountRange)

=============================================================================
